---- MODULE Spec2Model ----
(***************************************************************************)
(* Periscope: retrieval of an Anchor IDL from a ledger account, a local    *)
(* file or a URL (src/src/idl/fetcher.rs), the serde data model of the     *)
(* canonical and the legacy dialect (src/src/idl/types.rs, legacy.rs) and  *)
(* the legacy-to-canonical conversion (src/src/idl/legacy.rs).             *)
(*                                                                         *)
(* Results are records: [ok |-> v] for Ok(v), [err |-> e] for Err(e).      *)
(* Option<T> is a sequence of length at most one: <<>> is None, <<v>> is   *)
(* Some(v).  Byte strings are sequences of integers 0..255.                *)
(***************************************************************************)
EXTENDS Integers, Sequences, FiniteSets, TLC

(***************************************************************************)
(* Bounds of the explored inputs.                                          *)
(***************************************************************************)
\* longest byte string that follows the 44 byte header in an account image
MaxTail == 2
\* the longest accounts, types and events list of a converted legacy document
MaxList == 2
\* the deepest nesting of a legacy type
MaxDepth == 2
\* the most calls of get_idl_address in a row
MaxCalls == 3

(***************************************************************************)
(* Header layout, fetcher.rs:20-28.                                        *)
(***************************************************************************)
DISCRIMINATOR_SIZE == 8
AUTHORITY_SIZE == 32
DATA_LEN_SIZE == 4
DATA_LEN_OFFSET == DISCRIMINATOR_SIZE + AUTHORITY_SIZE
HEADER_SIZE == DATA_LEN_OFFSET + DATA_LEN_SIZE

Ok(v) == [ok |-> v]
Err(e) == [err |-> e]
IsOk(r) == "ok" \in DOMAIN r
IsErr(r) == "err" \in DOMAIN r

(***************************************************************************)
(* PeriscopeError, error.rs:7-37.  A variant is a record whose kind is the *)
(* variant name; the payload is the String (or the source error) carried.  *)
(***************************************************************************)
IdlNotFound(p) == [kind |-> "IdlNotFound", program |-> p]
DecompressionError(m) == [kind |-> "DecompressionError", msg |-> m]
ParseError(e) == [kind |-> "ParseError", cause |-> e]
RpcError(e) == [kind |-> "RpcError", cause |-> e]
InvalidProgramId(m) == [kind |-> "InvalidProgramId", msg |-> m]
\* variant: the message of the error is dropped
IoError_NoMessage(k, m) == [kind |-> "IoError", iokind |-> k, msg |-> ""]
IoError(k, m) == [kind |-> "IoError", iokind |-> k, msg |-> m]
NetworkError(m) == [kind |-> "NetworkError", msg |-> m]
HttpError(s, u) == [kind |-> "HttpError", status |-> s, url |-> u]

(***************************************************************************)
(* u32::from_le_bytes, fetcher.rs:122.  The result is widened to usize;    *)
(* on the 64 bit targets of the program HEADER_SIZE + data_len cannot      *)
(* wrap, so plain integer arithmetic is exact.                             *)
(***************************************************************************)
from_le_bytes(b) == b[1] + b[2] * 256 + b[3] * 65536 + b[4] * 16777216

\* data[a..b] of Rust: the bytes at 0-based offsets a .. b-1
Slice(s, a, b) == SubSeq(s, a + 1, b)

\* the data_len field of an account image of at least HEADER_SIZE bytes
data_len_of(data) ==
    from_le_bytes(Slice(data, DATA_LEN_OFFSET, DATA_LEN_OFFSET + DATA_LEN_SIZE))

\* format!("Compressed data truncated: expected {} bytes, got {}", ..)
\* variant: the two numbers change places
TruncatedMsg_Swapped(expected, actual) ==
    "Compressed data truncated: expected " \o ToString(actual)
        \o " bytes, got " \o ToString(expected)

TruncatedMsg(expected, actual) ==
    "Compressed data truncated: expected " \o ToString(expected)
        \o " bytes, got " \o ToString(actual)

TooSmallMsg == "Account data too small for IDL header"
EmptyMsg == "IDL compressed data is empty"

(***************************************************************************)
(* Steps 3-6 of fetch_idl_with_client, fetcher.rs:111-139: the envelope    *)
(* checks and the slice handed to the decompressor.                        *)
(***************************************************************************)
\* variant: the size check admits one byte too few
decode_envelope_OffByOne(data) ==
    IF Len(data) <= HEADER_SIZE
    THEN Err(DecompressionError(TooSmallMsg))
    ELSE LET data_len == data_len_of(data) IN
         IF data_len = 0
         THEN Err(DecompressionError(EmptyMsg))
         ELSE IF Len(data) < HEADER_SIZE + data_len
              THEN Err(DecompressionError(
                       TruncatedMsg(data_len, Len(data) - HEADER_SIZE)))
              ELSE Ok(Slice(data, HEADER_SIZE, HEADER_SIZE + data_len))

\* variant: the slice runs to the end of the account data
decode_envelope_ToEnd(data) ==
    IF Len(data) < HEADER_SIZE
    THEN Err(DecompressionError(TooSmallMsg))
    ELSE LET data_len == data_len_of(data) IN
         IF data_len = 0
         THEN Err(DecompressionError(EmptyMsg))
         ELSE IF Len(data) < HEADER_SIZE + data_len
              THEN Err(DecompressionError(
                       TruncatedMsg(data_len, Len(data) - HEADER_SIZE)))
              ELSE Ok(Slice(data, HEADER_SIZE, Len(data)))

decode_envelope(data) ==
    IF Len(data) < HEADER_SIZE
    THEN Err(DecompressionError(TooSmallMsg))
    ELSE LET data_len == data_len_of(data) IN
         IF data_len = 0
         THEN Err(DecompressionError(EmptyMsg))
         ELSE IF Len(data) < HEADER_SIZE + data_len
              THEN Err(DecompressionError(
                       TruncatedMsg(data_len, Len(data) - HEADER_SIZE)))
              ELSE Ok(Slice(data, HEADER_SIZE, HEADER_SIZE + data_len))

(***************************************************************************)
(* decompress_idl_data, fetcher.rs:258-272.  zlib_res and deflate_res are  *)
(* what decompress_zlib (fetcher.rs:275-280) and decompress_deflate        *)
(* (fetcher.rs:283-288) return for the compressed bytes; both are flate2   *)
(* decoders, outside the repository, so their answers are inputs.  The     *)
(* value holds the result and the decoders that were run, in order.        *)
(***************************************************************************)
BothFailedMsg == "Failed to decompress IDL data with both zlib and deflate"

\* variant: raw deflate is tried first
decompress_idl_data_DeflateFirst(zlib_res, deflate_res) ==
    IF IsOk(deflate_res)
    THEN [res |-> Ok(deflate_res.ok), ran |-> <<"decompress_deflate">>]
    ELSE IF IsOk(zlib_res)
         THEN [res |-> Ok(zlib_res.ok),
               ran |-> <<"decompress_deflate", "decompress_zlib">>]
         ELSE [res |-> Err(DecompressionError(BothFailedMsg)),
               ran |-> <<"decompress_deflate", "decompress_zlib">>]

decompress_idl_data(zlib_res, deflate_res) ==
    IF IsOk(zlib_res)
    THEN [res |-> Ok(zlib_res.ok), ran |-> <<"decompress_zlib">>]
    ELSE IF IsOk(deflate_res)
         THEN [res |-> Ok(deflate_res.ok),
               ran |-> <<"decompress_zlib", "decompress_deflate">>]
         ELSE [res |-> Err(DecompressionError(BothFailedMsg)),
               ran |-> <<"decompress_zlib", "decompress_deflate">>]

(***************************************************************************)
(* JSON values, as serde_json reads them.  An object keeps its members in  *)
(* source order, as a sequence of <<key, value>> pairs.                    *)
(***************************************************************************)
JStr(s) == [str |-> s]
JNum(n) == [num |-> n]
JBool(b) == [bool |-> b]
JNull == [null |-> TRUE]
JArr(a) == [arr |-> a]
JObj(m) == [obj |-> m]

IsStr(v) == "str" \in DOMAIN v
IsNum(v) == "num" \in DOMAIN v
IsBool(v) == "bool" \in DOMAIN v
IsNull(v) == "null" \in DOMAIN v
IsArr(v) == "arr" \in DOMAIN v
IsObj(v) == "obj" \in DOMAIN v

\* serde's name of the JSON value it met instead of the expected one
Unexpected(v) ==
    CASE IsStr(v) -> "string"
      [] IsNum(v) -> "integer"
      [] IsBool(v) -> "boolean"
      [] IsNull(v) -> "null"
      [] IsArr(v) -> "sequence"
      [] IsObj(v) -> "map"
      [] OTHER -> "not json"

InvalidType(v, expected) ==
    "invalid type: " \o Unexpected(v) \o ", expected " \o expected

MinOf(S) == CHOOSE x \in S : \A y \in S : x <= y

\* the value of the first member named k of an object's members
HasKey(m, k) == \E i \in 1..Len(m) : m[i][1] = k
ValueOf(m, k) == m[MinOf({i \in 1..Len(m) : m[i][1] = k})][2]

(***************************************************************************)
(* Type descriptors: what #[derive(Deserialize)] generates a reader for.   *)
(***************************************************************************)
TString == [t |-> "String"]
TBool == [t |-> "bool"]
TU8 == [t |-> "u8"]
TU32 == [t |-> "u32"]
TUsize == [t |-> "usize"]
TValue == [t |-> "Value"]
TVec(e) == [t |-> "Vec", e |-> e]
TOption(e) == [t |-> "Option", e |-> e]
TStruct(n) == [t |-> "struct", n |-> n]
TUntagged(n) == [t |-> "untagged", n |-> n]
TExternal(n) == [t |-> "external", n |-> n]
TInternal(n) == [t |-> "internal", n |-> n]

\* a struct field: its JSON key (serde rename), its Rust name, its type,
\* and whether it carries #[serde(default)]
Fld(key, field, ty, dflt) == [key |-> key, field |-> field, ty |-> ty, dflt |-> dflt]
\* an enum variant: its JSON tag, its Rust name, its shape and payload
Var(key, name, shape, ty) == [key |-> key, name |-> name, shape |-> shape, ty |-> ty]
(***************************************************************************)
(* The fields of every struct and struct variant, in declaration order:    *)
(* types.rs for the canonical model, legacy.rs for the legacy one.         *)
(***************************************************************************)
Fields(n) ==
    CASE n = "Idl" ->
           << Fld("address", "address", TString, FALSE),
              Fld("metadata", "metadata", TStruct("IdlMetadata"), FALSE),
              Fld("instructions", "instructions", TVec(TStruct("IdlInstruction")), FALSE),
              Fld("accounts", "accounts", TVec(TStruct("IdlAccountRef")), TRUE),
              Fld("types", "types", TVec(TStruct("IdlTypeDef")), TRUE),
              Fld("events", "events", TVec(TStruct("IdlEventRef")), TRUE),
              Fld("errors", "errors", TVec(TStruct("IdlError")), TRUE) >>
      [] n = "IdlMetadata" ->
           << Fld("name", "name", TString, FALSE),
              Fld("version", "version", TString, FALSE),
              Fld("spec", "spec", TString, FALSE),
              Fld("description", "description", TOption(TString), TRUE) >>
      [] n = "IdlInstruction" ->
           << Fld("name", "name", TString, FALSE),
              Fld("discriminator", "discriminator", TVec(TU8), TRUE),
              Fld("accounts", "accounts", TVec(TUntagged("IdlAccountItem")), FALSE),
              Fld("args", "args", TVec(TStruct("IdlField")), FALSE) >>
      [] n = "IdlAccount" ->
           << Fld("name", "name", TString, FALSE),
              Fld("writable", "writable", TBool, TRUE),
              Fld("signer", "signer", TBool, TRUE),
              Fld("optional", "optional", TBool, TRUE),
              Fld("address", "address", TOption(TString), TRUE),
              Fld("pda", "pda", TOption(TStruct("IdlPda")), TRUE) >>
      [] n = "IdlAccountGroup" ->
           << Fld("name", "name", TString, FALSE),
              Fld("accounts", "accounts", TVec(TUntagged("IdlAccountItem")), FALSE) >>
      [] n = "IdlPda" ->
           << Fld("seeds", "seeds", TVec(TInternal("IdlSeed")), FALSE) >>
      [] n = "IdlSeed::Const" -> << Fld("value", "value", TValue, FALSE) >>
      [] n = "IdlSeed::Account" -> << Fld("path", "path", TString, FALSE) >>
      [] n = "IdlSeed::Arg" -> << Fld("path", "path", TString, FALSE) >>
      [] n = "IdlField" ->
           << Fld("name", "name", TString, FALSE),
              Fld("type", "ty", TUntagged("IdlType"), FALSE) >>
      [] n = "IdlTypeDef" ->
           << Fld("name", "name", TString, FALSE),
              Fld("type", "ty", TInternal("IdlTypeDefTy"), FALSE) >>
      [] n = "IdlTypeDefTy::Struct" ->
           << Fld("fields", "fields", TVec(TStruct("IdlField")), FALSE) >>
      [] n = "IdlTypeDefTy::Enum" ->
           << Fld("variants", "variants", TVec(TStruct("IdlEnumVariant")), FALSE) >>
      [] n = "IdlEnumVariant" ->
           << Fld("name", "name", TString, FALSE),
              Fld("fields", "fields", TOption(TUntagged("IdlEnumFields")), TRUE) >>
      [] n = "IdlTypeComplex::Defined" ->
           << Fld("name", "name", TString, FALSE) >>
      [] n = "IdlAccountRef" ->
           << Fld("name", "name", TString, FALSE),
              Fld("discriminator", "discriminator", TVec(TU8), TRUE) >>
      [] n = "IdlEventRef" ->
           << Fld("name", "name", TString, FALSE),
              Fld("discriminator", "discriminator", TVec(TU8), TRUE) >>
      [] n = "IdlError" ->
           << Fld("code", "code", TU32, FALSE),
              Fld("name", "name", TString, FALSE),
              Fld("msg", "msg", TOption(TString), TRUE) >>
      [] n = "LegacyIdl" ->
           << Fld("name", "name", TString, FALSE),
              Fld("version", "version", TString, FALSE),
              Fld("metadata", "metadata", TOption(TStruct("LegacyMetadata")), TRUE),
              Fld("instructions", "instructions", TVec(TStruct("LegacyInstruction")), TRUE),
              Fld("accounts", "accounts", TVec(TStruct("LegacyTypeDef")), TRUE),
              Fld("types", "types", TVec(TStruct("LegacyTypeDef")), TRUE),
              Fld("events", "events", TVec(TStruct("LegacyEvent")), TRUE),
              Fld("errors", "errors", TVec(TStruct("IdlError")), TRUE) >>
      [] n = "LegacyMetadata" ->
           << Fld("address", "address", TOption(TString), TRUE),
              Fld("origin", "origin", TOption(TString), TRUE),
              Fld("binaryVersion", "binary_version", TOption(TString), TRUE),
              Fld("libVersion", "lib_version", TOption(TString), TRUE) >>
      [] n = "LegacyInstruction" ->
           << Fld("name", "name", TString, FALSE),
              Fld("docs", "docs", TVec(TString), TRUE),
              Fld("accounts", "accounts", TVec(TStruct("LegacyInstructionAccount")), TRUE),
              Fld("args", "args", TVec(TStruct("LegacyField")), TRUE) >>
      [] n = "LegacyInstructionAccount" ->
           << Fld("name", "name", TString, FALSE),
              Fld("isMut", "is_mut", TBool, TRUE),
              Fld("isSigner", "is_signer", TBool, TRUE),
              Fld("isOptional", "is_optional", TBool, TRUE),
              Fld("docs", "docs", TVec(TString), TRUE) >>
      [] n = "LegacyTypeDef" ->
           << Fld("name", "name", TString, FALSE),
              Fld("docs", "docs", TVec(TString), TRUE),
              Fld("type", "ty", TInternal("LegacyTypeDefTy"), FALSE) >>
      [] n = "LegacyTypeDefTy::Struct" ->
           << Fld("fields", "fields", TVec(TStruct("LegacyField")), TRUE) >>
      [] n = "LegacyTypeDefTy::Enum" ->
           << Fld("variants", "variants", TVec(TStruct("LegacyEnumVariant")), TRUE) >>
      [] n = "LegacyEnumVariant" ->
           << Fld("name", "name", TString, FALSE),
              Fld("fields", "fields", TOption(TVec(TStruct("LegacyField"))), TRUE) >>
      [] n = "LegacyField" ->
           << Fld("name", "name", TString, FALSE),
              Fld("docs", "docs", TVec(TString), TRUE),
              Fld("type", "ty", TUntagged("LegacyType"), FALSE) >>
      [] n = "LegacyEvent" ->
           << Fld("name", "name", TString, FALSE),
              Fld("fields", "fields", TVec(TStruct("LegacyField")), TRUE) >>

(***************************************************************************)
(* The variants of every enum, in declaration order.  An untagged enum is  *)
(* probed in this order; a tagged one is selected by the JSON tag.         *)
(***************************************************************************)
Variants(n) ==
    CASE n = "IdlAccountItem" ->
           << Var("", "Single", "newtype", TStruct("IdlAccount")),
              Var("", "Group", "newtype", TStruct("IdlAccountGroup")) >>
      [] n = "IdlEnumFields" ->
           << Var("", "Tuple", "newtype", TVec(TUntagged("IdlType"))),
              Var("", "Named", "newtype", TVec(TStruct("IdlField"))) >>
      [] n = "IdlType" ->
           << Var("", "Primitive", "newtype", TString),
              Var("", "Complex", "newtype", TExternal("IdlTypeComplex")) >>
      [] n = "IdlTypeComplex" ->
           << Var("vec", "Vec", "newtype", TUntagged("IdlType")),
              Var("option", "Option", "newtype", TUntagged("IdlType")),
              Var("array", "Array", "tuple", << TUntagged("IdlType"), TUsize >>),
              Var("defined", "Defined", "struct", "IdlTypeComplex::Defined") >>
      [] n = "IdlSeed" ->
           << Var("const", "Const", "struct", "IdlSeed::Const"),
              Var("account", "Account", "struct", "IdlSeed::Account"),
              Var("arg", "Arg", "struct", "IdlSeed::Arg") >>
      [] n = "IdlTypeDefTy" ->
           << Var("struct", "Struct", "struct", "IdlTypeDefTy::Struct"),
              Var("enum", "Enum", "struct", "IdlTypeDefTy::Enum") >>
      [] n = "LegacyTypeDefTy" ->
           << Var("struct", "Struct", "struct", "LegacyTypeDefTy::Struct"),
              Var("enum", "Enum", "struct", "LegacyTypeDefTy::Enum") >>
      [] n = "LegacyType" ->
           << Var("", "Primitive", "newtype", TString),
              Var("", "Complex", "newtype", TExternal("LegacyTypeComplex")) >>
      [] n = "LegacyTypeComplex" ->
           << Var("vec", "Vec", "newtype", TUntagged("LegacyType")),
              Var("option", "Option", "newtype", TUntagged("LegacyType")),
              Var("array", "Array", "tuple", << TUntagged("LegacyType"), TUsize >>),
              Var("defined", "Defined", "newtype", TString) >>
\* Default::default() of a field that carries #[serde(default)]
Default(ty) == IF ty.t = "bool" THEN FALSE ELSE << >>

\* a field whose absence is no error: #[serde(default)], or an Option
MissingOk(f) == f.dflt \/ f.ty.t = "Option"

\* an enum value: the variant's name and its payload
Tag(name, payload) == [k \in {name} |-> payload]
IsVariant(v, name) == name \in DOMAIN v

\* the index of the variant carrying JSON tag k, 0 when there is none
VariantOf(vs, k) ==
    IF \E i \in 1..Len(vs) : vs[i].key = k
    THEN MinOf({i \in 1..Len(vs) : vs[i].key = k})
    ELSE 0

NotKind(p) == p[1] # "kind"

(***************************************************************************)
(* The readers #[derive(Deserialize)] generates (types.rs, legacy.rs),     *)
(* driven by the tables above.  De(ty, v) reads JSON value v as type ty.   *)
(* A reader reads each member once: With binds the value read, so that it  *)
(* is computed once however often it is used.                              *)
(***************************************************************************)
With(v, F(_)) == CHOOSE y \in { F(x) : x \in {v} } : TRUE

RECURSIVE De(_, _), DeStruct(_, _), DeStructMap(_, _), DeStructSeq(_, _)
RECURSIVE DeVec(_, _), DeUntagged(_, _), DeExternal(_, _), DeInternal(_, _)

\* a payload read, wrapped in its variant
Tagged(name, r) == IF IsOk(r) THEN Ok(Tag(name, r.ok)) ELSE r

\* the fields of struct n, from the outcome of reading each member of m
StructOfMap(n, m, reads) ==
    LET fs == Fields(n)
        Known(i) == \E f \in 1..Len(fs) : fs[f].key = m[i][1]
        Dup(i) == \E j \in 1..(i - 1) : m[j][1] = m[i][1]
        Bad == {i \in 1..Len(m) : Known(i) /\ (Dup(i) \/ IsErr(reads[i]))}
        Missing == {f \in 1..Len(fs) : ~HasKey(m, fs[f].key) /\ ~MissingOk(fs[f])}
        At(k) == MinOf({i \in 1..Len(m) : m[i][1] = k})
        Val(f) == IF HasKey(m, fs[f].key)
                  THEN reads[At(fs[f].key)].ok
                  ELSE Default(fs[f].ty)
        IdxOf(x) == MinOf({f \in 1..Len(fs) : fs[f].field = x})
    IN  IF Bad # {}
        THEN IF Dup(MinOf(Bad))
             THEN Err("duplicate field '" \o m[MinOf(Bad)][1] \o "'")
             ELSE reads[MinOf(Bad)]
        ELSE IF Missing # {}
             THEN Err("missing field '" \o fs[MinOf(Missing)].key \o "'")
             ELSE Ok([x \in {fs[f].field : f \in 1..Len(fs)} |-> Val(IdxOf(x))])

\* visit_map of a derived struct: members are read in source order, an
\* unknown key is skipped, the first bad member ends the read; then the
\* first absent field without a default is reported
DeStructMap(n, m) ==
    LET fs == Fields(n)
        FieldOf(k) == MinOf({f \in 1..Len(fs) : fs[f].key = k})
        Known(i) == \E f \in 1..Len(fs) : fs[f].key = m[i][1]
        Dup(i) == \E j \in 1..(i - 1) : m[j][1] = m[i][1]
    IN  With([i \in 1..Len(m) |->
                 IF Known(i) /\ ~Dup(i)
                 THEN De(fs[FieldOf(m[i][1])].ty, m[i][2])
                 ELSE Ok(0)] \o << >>,
             LAMBDA reads : StructOfMap(n, m, reads))

\* the fields of struct n, from the outcome of reading the elements of a
StructOfSeq(n, a, reads) ==
    LET fs == Fields(n)
        Bad == {f \in 1..Len(reads) : IsErr(reads[f])}
        Missing == {f \in 1..Len(fs) : f > Len(a) /\ ~fs[f].dflt}
        Val(f) == IF f <= Len(a) THEN reads[f].ok ELSE Default(fs[f].ty)
        IdxOf(x) == MinOf({f \in 1..Len(fs) : fs[f].field = x})
    IN  IF Bad # {}
        THEN reads[MinOf(Bad)]
        ELSE IF Missing # {}
             THEN Err("invalid length " \o ToString(Len(a)) \o ", expected struct " \o n)
             ELSE IF Len(a) > Len(fs)
                  THEN Err("trailing characters")
                  ELSE Ok([x \in {fs[f].field : f \in 1..Len(fs)} |-> Val(IdxOf(x))])

\* visit_seq of a derived struct: the fields are read by position
DeStructSeq(n, a) ==
    LET fs == Fields(n)
        Here == 1..(IF Len(a) < Len(fs) THEN Len(a) ELSE Len(fs))
    IN  With([f \in Here |-> De(fs[f].ty, a[f])] \o << >>,
             LAMBDA reads : StructOfSeq(n, a, reads))

DeStruct(n, v) ==
    IF IsObj(v) THEN DeStructMap(n, v.obj)
    ELSE IF IsArr(v) THEN DeStructSeq(n, v.arr)
    ELSE Err(InvalidType(v, "struct " \o n))

\* the first element that fails, else all of them
AllOrFirstErr(reads) ==
    LET Bad == {i \in 1..Len(reads) : IsErr(reads[i])}
    IN  IF Bad # {} THEN reads[MinOf(Bad)]
        ELSE Ok([i \in 1..Len(reads) |-> reads[i].ok])

DeVec(e, a) ==
    With([i \in 1..Len(a) |-> De(e, a[i])] \o << >>, AllOrFirstErr)

\* #[serde(untagged)]: the variants are tried in declaration order and the
\* first that reads without error wins
FirstFit(n, reads) ==
    LET vs == Variants(n)
        Fit == {i \in 1..Len(vs) : IsOk(reads[i])}
    IN  IF Fit = {}
        THEN Err("data did not match any variant of untagged enum " \o n)
        ELSE Ok(Tag(vs[MinOf(Fit)].name, reads[MinOf(Fit)].ok))

DeUntagged(n, v) ==
    With([i \in 1..Len(Variants(n)) |-> De(Variants(n)[i].ty, v)] \o << >>,
         LAMBDA reads : FirstFit(n, reads))

\* the payload of a tuple variant, from the outcome of reading each element
TupleOf(tys, a, reads) ==
    LET Bad == {j \in 1..Len(reads) : IsErr(reads[j])}
    IN  IF Bad # {} THEN reads[MinOf(Bad)]
        ELSE IF Len(a) # Len(tys)
             THEN Err("invalid length " \o ToString(Len(a)))
             ELSE Ok([j \in 1..Len(tys) |-> reads[j].ok])

\* an externally tagged enum, read from buffered content: {"tag": payload}
DeExternal(n, v) ==
    LET vs == Variants(n) IN
    IF IsStr(v)
    THEN IF VariantOf(vs, v.str) = 0
         THEN Err("unknown variant '" \o v.str \o "'")
         ELSE Err("invalid type: unit variant, expected " \o
                      vs[VariantOf(vs, v.str)].shape \o " variant")
    ELSE IF ~IsObj(v) THEN Err(InvalidType(v, "string or map"))
    ELSE IF Len(v.obj) # 1
         THEN Err("invalid value: map, expected map with a single key")
    ELSE LET k == v.obj[1][1]
             x == v.obj[1][2]
             i == VariantOf(vs, k)
         IN  IF i = 0 THEN Err("unknown variant '" \o k \o "'")
             ELSE IF vs[i].shape = "newtype"
                  THEN With(De(vs[i].ty, x), LAMBDA r : Tagged(vs[i].name, r))
             ELSE IF vs[i].shape = "struct"
                  THEN With(DeStruct(vs[i].ty, x), LAMBDA r : Tagged(vs[i].name, r))
             ELSE \* a tuple variant: an array of exactly the payload types
                  IF ~IsArr(x) THEN Err(InvalidType(x, "tuple variant"))
                  ELSE LET tys == vs[i].ty
                           Here == 1..(IF Len(x.arr) < Len(tys) THEN Len(x.arr) ELSE Len(tys))
                       IN  With([j \in Here |-> De(tys[j], x.arr[j])] \o << >>,
                                LAMBDA reads : Tagged(vs[i].name, TupleOf(tys, x.arr, reads)))

\* #[serde(tag = "kind")]: the variant is named by the member "kind", the
\* other members are the fields of the struct variant
DeInternal(n, v) ==
    LET vs == Variants(n) IN
    IF IsObj(v)
    THEN LET kinds == {i \in 1..Len(v.obj) : v.obj[i][1] = "kind"} IN
         IF kinds = {} THEN Err("missing field 'kind'")
         ELSE IF Cardinality(kinds) > 1 THEN Err("duplicate field 'kind'")
         ELSE LET tag == v.obj[MinOf(kinds)][2] IN
              IF ~IsStr(tag) THEN Err(InvalidType(tag, "variant identifier"))
              ELSE IF VariantOf(vs, tag.str) = 0
                   THEN Err("unknown variant '" \o tag.str \o "'")
                   ELSE LET i == VariantOf(vs, tag.str)
                        IN With(DeStructMap(vs[i].ty, SelectSeq(v.obj, NotKind)),
                                LAMBDA r : Tagged(vs[i].name, r))
    ELSE IF IsArr(v)
    THEN IF Len(v.arr) = 0 THEN Err("invalid length 0, expected variant identifier")
         ELSE LET tag == v.arr[1] IN
              IF ~IsStr(tag) THEN Err(InvalidType(tag, "variant identifier"))
              ELSE IF VariantOf(vs, tag.str) = 0
                   THEN Err("unknown variant '" \o tag.str \o "'")
                   ELSE LET i == VariantOf(vs, tag.str)
                        IN With(DeStructSeq(vs[i].ty, Tail(v.arr)),
                                LAMBDA r : Tagged(vs[i].name, r))
    ELSE Err(InvalidType(v, "internally tagged enum " \o n))

\* Some(v) of a value read, an error as it is
SomeOf(r) == IF IsOk(r) THEN Ok(<< r.ok >>) ELSE r

De(ty, v) ==
    CASE ty.t = "String" ->
           IF IsStr(v) THEN Ok(v.str) ELSE Err(InvalidType(v, "a string"))
      [] ty.t = "bool" ->
           IF IsBool(v) THEN Ok(v.bool) ELSE Err(InvalidType(v, "a boolean"))
      [] ty.t = "u8" ->
           IF ~IsNum(v) THEN Err(InvalidType(v, "u8"))
           ELSE IF v.num \in 0..255 THEN Ok(v.num)
           ELSE Err("invalid value: integer '" \o ToString(v.num) \o "', expected u8")
      [] ty.t \in {"u32", "usize"} ->
           IF ~IsNum(v) THEN Err(InvalidType(v, ty.t))
           ELSE IF v.num >= 0 THEN Ok(v.num)
           ELSE Err("invalid value: integer '" \o ToString(v.num) \o "', expected " \o ty.t)
      [] ty.t = "Value" -> Ok(v)
      [] ty.t = "Vec" ->
           IF IsArr(v) THEN DeVec(ty.e, v.arr) ELSE Err(InvalidType(v, "a sequence"))
      [] ty.t = "Option" ->
           IF IsNull(v) THEN Ok(<< >>) ELSE With(De(ty.e, v), SomeOf)
      [] ty.t = "struct" -> DeStruct(ty.n, v)
      [] ty.t = "untagged" -> DeUntagged(ty.n, v)
      [] ty.t = "external" -> DeExternal(ty.n, v)
      [] ty.t = "internal" -> DeInternal(ty.n, v)

(***************************************************************************)
(* serde_json::from_slice::<T> / from_str::<T>, as called at               *)
(* fetcher.rs:152, 179 and 234.  A text is a JSON value, or one of the     *)
(* two markers below for text that is no JSON (or no UTF-8) at all.        *)
(***************************************************************************)
NotJson == [raw |-> "not json"]
NotUtf8 == [raw |-> "not utf-8"]
IsRaw(t) == "raw" \in DOMAIN t

from_json(n, text) ==
    IF IsRaw(text) THEN Err("expected value") ELSE De(TStruct(n), text)

Map(F(_), s) == [i \in 1..Len(s) |-> F(s[i])]

(***************************************************************************)
(* Legacy to canonical conversion, legacy.rs:176-316.                      *)
(***************************************************************************)
RECURSIVE IdlType_from(_), IdlTypeComplex_from(_)

\* variant: every primitive passes through unchanged
IdlType_from_KeepPublicKey(legacy) ==
    IF IsVariant(legacy, "Primitive")
    THEN [Primitive |-> legacy.Primitive]
    ELSE [Complex |-> IdlTypeComplex_from(legacy.Complex)]

\* impl From<LegacyType> for IdlType, legacy.rs:290-303
IdlType_from(legacy) ==
    IF IsVariant(legacy, "Primitive")
    THEN IF legacy.Primitive = "publicKey"
         THEN [Primitive |-> "pubkey"]
         ELSE [Primitive |-> legacy.Primitive]
    ELSE [Complex |-> IdlTypeComplex_from(legacy.Complex)]

\* impl From<LegacyTypeComplex> for IdlTypeComplex, legacy.rs:305-316
IdlTypeComplex_from(legacy) ==
    CASE IsVariant(legacy, "Vec") -> [Vec |-> IdlType_from(legacy.Vec)]
      [] IsVariant(legacy, "Option") -> [Option |-> IdlType_from(legacy.Option)]
      [] IsVariant(legacy, "Array") ->
           [Array |-> << IdlType_from(legacy.Array[1]), legacy.Array[2] >>]
      [] IsVariant(legacy, "Defined") -> [Defined |-> [name |-> legacy.Defined]]

\* impl From<LegacyField> for IdlField, legacy.rs:281-288
IdlField_from(legacy) ==
    [name |-> legacy.name, ty |-> IdlType_from(legacy.ty)]

\* variant: the fields of a variant become positional
TypeOfField(f) == IdlType_from(f.ty)
IdlEnumVariant_from_Tuple(legacy) ==
    [name |-> legacy.name,
     fields |-> IF Len(legacy.fields) = 0
                THEN << >>
                ELSE << [Tuple |-> Map(TypeOfField, legacy.fields[1])] >>]

\* impl From<LegacyEnumVariant> for IdlEnumVariant, legacy.rs:270-279
IdlEnumVariant_from(legacy) ==
    [name |-> legacy.name,
     fields |-> IF Len(legacy.fields) = 0
                THEN << >>
                ELSE << [Named |-> Map(IdlField_from, legacy.fields[1])] >>]

\* impl From<LegacyTypeDefTy> for IdlTypeDefTy, legacy.rs:257-268
IdlTypeDefTy_from(legacy) ==
    IF IsVariant(legacy, "Struct")
    THEN [Struct |-> [fields |-> Map(IdlField_from, legacy.Struct.fields)]]
    ELSE [Enum |-> [variants |-> Map(IdlEnumVariant_from, legacy.Enum.variants)]]

\* impl From<LegacyTypeDef> for IdlTypeDef, legacy.rs:248-255
IdlTypeDef_from(legacy) ==
    [name |-> legacy.name, ty |-> IdlTypeDefTy_from(legacy.ty)]

\* variant: the writable and signer flags change places
IdlAccount_from_Swapped(legacy) ==
    [name |-> legacy.name,
     writable |-> legacy.is_signer,
     signer |-> legacy.is_mut,
     optional |-> legacy.is_optional,
     address |-> << >>,
     pda |-> << >>]

\* impl From<LegacyInstructionAccount> for IdlAccount, legacy.rs:235-246
IdlAccount_from(legacy) ==
    [name |-> legacy.name,
     writable |-> legacy.is_mut,
     signer |-> legacy.is_signer,
     optional |-> legacy.is_optional,
     address |-> << >>,
     pda |-> << >>]

SingleOf(a) == [Single |-> IdlAccount_from(a)]

\* variant: the instruction's discriminator is computed from its name
IdlInstruction_from_Fabricated(legacy) ==
    [name |-> legacy.name,
     discriminator |-> << 175, 175, 109, 31, 13, 152, 155, 237 >>,
     accounts |-> Map(SingleOf, legacy.accounts),
     args |-> Map(IdlField_from, legacy.args)]

\* impl From<LegacyInstruction> for IdlInstruction, legacy.rs:220-233
IdlInstruction_from(legacy) ==
    [name |-> legacy.name,
     discriminator |-> << >>,
     accounts |-> Map(SingleOf, legacy.accounts),
     args |-> Map(IdlField_from, legacy.args)]

\* an address that falls back to the metadata's origin
legacy_address_FromOrigin(legacy) ==
    IF Len(legacy.metadata) = 0 THEN ""
    ELSE IF Len(legacy.metadata[1].address) # 0 THEN legacy.metadata[1].address[1]
    ELSE IF Len(legacy.metadata[1].origin) # 0 THEN legacy.metadata[1].origin[1]
    ELSE ""

\* the address of the converted document, legacy.rs:178-182
legacy_address(legacy) ==
    IF Len(legacy.metadata) = 0 THEN ""
    ELSE IF Len(legacy.metadata[1].address) = 0 THEN ""
    ELSE legacy.metadata[1].address[1]

\* legacy.rs:193-200
AccountRefOf(a) == [name |-> a.name, discriminator |-> << >>]
\* legacy.rs:207-214
EventRefOf(e) == [name |-> e.name, discriminator |-> << >>]

\* a conversion that chains the types before the accounts
Idl_from_TypesFirst(legacy) ==
    [address |-> legacy_address(legacy),
     metadata |-> [name |-> legacy.name,
                   version |-> legacy.version,
                   spec |-> "legacy",
                   description |-> << >>],
     instructions |-> Map(IdlInstruction_from, legacy.instructions),
     accounts |-> Map(AccountRefOf, legacy.accounts),
     types |-> Map(IdlTypeDef_from, legacy.types \o legacy.accounts),
     events |-> Map(EventRefOf, legacy.events),
     errors |-> legacy.errors]

\* a conversion that keeps the event bodies as struct type definitions
EventTypeDefOf(e) ==
    [name |-> e.name, ty |-> [Struct |-> [fields |-> Map(IdlField_from, e.fields)]]]
Idl_from_EventsAsTypes(legacy) ==
    [address |-> legacy_address(legacy),
     metadata |-> [name |-> legacy.name,
                   version |-> legacy.version,
                   spec |-> "legacy",
                   description |-> << >>],
     instructions |-> Map(IdlInstruction_from, legacy.instructions),
     accounts |-> Map(AccountRefOf, legacy.accounts),
     types |-> Map(IdlTypeDef_from, legacy.accounts \o legacy.types)
                   \o Map(EventTypeDefOf, legacy.events),
     events |-> Map(EventRefOf, legacy.events),
     errors |-> legacy.errors]

\* impl From<LegacyIdl> for Idl, legacy.rs:176-218
Idl_from(legacy) ==
    [address |-> legacy_address(legacy),
     metadata |-> [name |-> legacy.name,
                   version |-> legacy.version,
                   spec |-> "legacy",
                   description |-> << >>],
     instructions |-> Map(IdlInstruction_from, legacy.instructions),
     accounts |-> Map(AccountRefOf, legacy.accounts),
     types |-> Map(IdlTypeDef_from, legacy.accounts \o legacy.types),
     events |-> Map(EventRefOf, legacy.events),
     errors |-> legacy.errors]

(***************************************************************************)
(* format_type and format_complex_type, display.rs:228-243.                *)
(***************************************************************************)
RECURSIVE format_type(_), format_complex_type(_)

\* variant: a list is rendered with the canonical constructor's name
format_complex_type_List(ty) ==
    CASE IsVariant(ty, "Vec") -> "List<" \o format_type(ty.Vec) \o ">"
      [] IsVariant(ty, "Option") -> "Option<" \o format_type(ty.Option) \o ">"
      [] IsVariant(ty, "Array") ->
           "[" \o format_type(ty.Array[1]) \o "; " \o ToString(ty.Array[2]) \o "]"
      [] IsVariant(ty, "Defined") -> ty.Defined.name

format_type(ty) ==
    IF IsVariant(ty, "Primitive") THEN ty.Primitive
    ELSE format_complex_type(ty.Complex)

format_complex_type(ty) ==
    CASE IsVariant(ty, "Vec") -> "Vec<" \o format_type(ty.Vec) \o ">"
      [] IsVariant(ty, "Option") -> "Option<" \o format_type(ty.Option) \o ">"
      [] IsVariant(ty, "Array") ->
           "[" \o format_type(ty.Array[1]) \o "; " \o ToString(ty.Array[2]) \o "]"
      [] IsVariant(ty, "Defined") -> ty.Defined.name

(***************************************************************************)
(* Step 9 of fetch_idl_with_client (fetcher.rs:151-152), and the same call *)
(* at fetcher.rs:179 and fetcher.rs:234: the text is read as the canonical *)
(* Idl and a failure becomes ParseError through #[from] (error.rs:14-15).  *)
(* The value holds the result and the readers that were run, in order.     *)
(***************************************************************************)
\* a reader that falls back to the legacy dialect when the canonical parse
\* fails
parse_idl_LegacyFallback(text) ==
    LET r == from_json("Idl", text)
        l == from_json("LegacyIdl", text)
    IN  IF IsOk(r) THEN [res |-> r, ran |-> << "parse_Idl" >>]
        ELSE [res |-> IF IsOk(l) THEN Ok(Idl_from(l.ok)) ELSE Err(ParseError(r.err)),
              ran |-> << "parse_Idl", "parse_LegacyIdl" >>]

parse_idl(text) ==
    LET r == from_json("Idl", text)
    IN  [res |-> IF IsOk(r) THEN r ELSE Err(ParseError(r.err)),
         ran |-> << "parse_Idl" >>]

(***************************************************************************)
(* get_idl_address, fetcher.rs:248-255.  The two derivations are the       *)
(* ledger SDK's; an address is the term that names its derivation, which   *)
(* keeps the hash injective.  create_with_seed refuses an owner whose      *)
(* bytes end in the program-derived-address marker.                        *)
(***************************************************************************)
IDL_SEED == "anchor:idl"
\* a Pubkey: a given key, or the term of a derivation (below)
Pubkey(s) == [key |-> s]
IllegalOwners == { Pubkey("ProgramDerivedAddress") }

find_program_address(seeds, program_id) ==
    [pda |-> [seeds |-> seeds, program |-> program_id]]

create_with_seed(base, seed, owner) ==
    IF owner \in IllegalOwners
    THEN Err("Provided owner is not allowed")
    ELSE Ok([base |-> base, seed |-> seed, owner |-> owner])

\* variant: the program address itself is returned
get_idl_address_Echo(program_id) == Ok(program_id)

get_idl_address(program_id) ==
    LET program_signer == find_program_address(<< >>, program_id)
        r == create_with_seed(program_signer, IDL_SEED, program_id)
    IN  IF IsOk(r) THEN r ELSE Err(InvalidProgramId(r.err))

\* error_str.contains(marker), fetcher.rs:101; an error text is the
\* sequence of its phrases
Contains(error_str, marker) == \E i \in 1..Len(error_str) : error_str[i] = marker

\* variant: only the first marker is looked for
map_rpc_error_OneMarker(e, program_id) ==
    IF Contains(e, "AccountNotFound")
    THEN IdlNotFound(program_id)
    ELSE RpcError(e)

\* the map_err closure of the account read, fetcher.rs:98-107
map_rpc_error(e, program_id) ==
    IF Contains(e, "AccountNotFound") \/ Contains(e, "could not find account")
    THEN IdlNotFound(program_id)
    ELSE RpcError(e)

\* variant: 300 counts as a success too
is_success_Lenient(status) == 200 <= status /\ status <= 300

\* response.status().is_success(), fetcher.rs:220
is_success(status) == 200 <= status /\ status < 300

Utf8Msg == "Decompressed data is not valid UTF-8"

(***************************************************************************)
(* The explored inputs.                                                    *)
(***************************************************************************)
Fill(n, b) == [i \in 1..n |-> b]
Prefix(s, n) == SubSeq(s, 1, n)

\* byte strings over B of length lo..hi
RECURSIVE BytesOfLen(_, _)
BytesOfLen(B, n) ==
    IF n = 0 THEN { << >> }
    ELSE { Append(s, b) : s \in BytesOfLen(B, n - 1), b \in B }
BytesUpTo(B, n) == UNION { BytesOfLen(B, k) : k \in 0..n }

\* data_len fields: every small length, and one with each higher byte set
LenFields ==
    { << b, 0, 0, 0 >> : b \in 0..(MaxTail + 1) }
        \cup { << 0, 1, 0, 0 >>, << 0, 0, 1, 0 >>, << 0, 0, 0, 1 >>, << 1, 1, 0, 0 >> }

\* account images: discriminator, authority, data_len, then a tail; and
\* every prefix of one, so that every total length occurs
AccountImages ==
    { Fill(DISCRIMINATOR_SIZE, d) \o Fill(AUTHORITY_SIZE, a) \o lf \o tail :
        d \in {0, 7}, a \in {0, 9}, lf \in LenFields,
        tail \in BytesUpTo({1, 120}, MaxTail) }
AccountDatas ==
    UNION { { Prefix(img, t) : t \in 0..Len(img) } : img \in AccountImages }

Programs == { Pubkey("Prog1"), Pubkey("ProgramDerivedAddress") }
RpcErrors ==
    { << "AccountNotFound", "pubkey=x" >>,
      << "Invalid param", "could not find account" >>,
      << "account not found" >>,
      << "connection refused" >> }
Paths == {"idl.json"}
Urls == {"https://host/idl.json"}
Statuses == {199, 200, 299, 300, 404}

\* members of a top-level JSON document, each absent or present
One(k, v) == << << k, v >> >>
LegacyInstructionJson ==
    JObj(<< << "name", JStr("initialize") >>,
            << "accounts", JArr(<< JObj(<< << "name", JStr("signer") >>,
                                           << "isMut", JBool(TRUE) >>,
                                           << "isSigner", JBool(TRUE) >> >>) >>) >>,
            << "args", JArr(<< >>) >> >>)
LegacyAccountJson ==
    JObj(<< << "name", JStr("Vault") >>,
            << "type", JObj(<< << "kind", JStr("struct") >>,
                               << "fields", JArr(<< JObj(<< << "name", JStr("owner") >>,
                                                            << "type", JStr("publicKey") >> >>) >>) >> >>) >> >>)
LegacyTypeJson ==
    JObj(<< << "name", JStr("Side") >>,
            << "type", JObj(<< << "kind", JStr("enum") >>,
                               << "variants", JArr(<< JObj(<< << "name", JStr("Buy") >> >>) >>) >> >>) >> >>)
LegacyEventJson ==
    JObj(<< << "name", JStr("Traded") >>,
            << "fields", JArr(<< JObj(<< << "name", JStr("amount") >>,
                                         << "type", JStr("u64") >> >>) >>) >> >>)

AddressOpts == { << >>, One("address", JStr("ProgAddr")), One("address", JNum(5)) }
NameOpts == { << >>, One("name", JStr("foo")), One("name", JNum(7)) }
VersionOpts == { << >>, One("version", JStr("1.0.0")) }
MetadataOpts ==
    { << >>,
      One("metadata", JObj(<< << "name", JStr("meta") >>,
                              << "version", JStr("0.1.0") >>,
                              << "spec", JStr("0.1.0") >> >>)),
      One("metadata", JObj(<< << "address", JStr("MetaAddr") >> >>)) }
InstructionsOpts == { << >>, One("instructions", JArr(<< LegacyInstructionJson >>)) }
BodiesOpts ==
    { << >>,
      One("accounts", JArr(<< LegacyAccountJson >>))
          \o One("types", JArr(<< LegacyTypeJson >>))
          \o One("events", JArr(<< LegacyEventJson >>)) }

Docs ==
    { JObj(a \o n \o v \o m \o i \o b) :
        a \in AddressOpts, n \in NameOpts, v \in VersionOpts,
        m \in MetadataOpts, i \in InstructionsOpts, b \in BodiesOpts }

\* what a file or a response body may hold
Texts == Docs \cup {NotJson}

\* what the ledger account may decompress to: the documents without the
\* optional lists, and bytes that are no UTF-8 or no JSON
ChainTexts ==
    { JObj(a \o n \o One("version", JStr("1.0.0")) \o m
               \o One("instructions", JArr(<< LegacyInstructionJson >>))) :
        a \in AddressOpts, n \in NameOpts, m \in MetadataOpts \ { << >> } }
      \cup {NotJson, NotUtf8}

\* what a flate2 decoder may answer
DecodeOutcomes ==
    { Ok(t) : t \in ChainTexts }
        \cup { Err("corrupt deflate stream"), Err("invalid stored block lengths") }

Unset == [unset |-> TRUE]
IsSet(v) == "unset" \notin DOMAIN v

VARIABLES
    pc,           \* the step the running call is at; "idle", "done"
    source,       \* "OnChain", "File", "Url": the call that runs
    arg,          \* its argument: program id, path or url
    idl_address,  \* fetcher.rs:95
    data,         \* account.data, fetcher.rs:109
    compressed,   \* fetcher.rs:139
    zlib_res,     \* what decompress_zlib returned, once it ran
    deflate_res,  \* what decompress_deflate returned, once it ran
    text,         \* json_bytes (:142), contents (:178) or body (:228)
    response,     \* what the remote end answered: the error of the account
                  \* read (fetcher.rs:98-100), the HTTP response (:213-217)
    result,       \* what the call returned
    trace,        \* the steps and collaborators run so far, in order
    legacy,       \* a parsed LegacyIdl, the argument of Idl::from
    converted     \* what Idl::from returned for it

vars == << pc, source, arg, idl_address, data, compressed, zlib_res,
           deflate_res, text, response, result, trace, legacy, converted >>

\* no call has started
Idle ==
    /\ pc = "idle"
    /\ source = "none"
    /\ arg = ""
    /\ idl_address = Unset
    /\ data = << >>
    /\ compressed = << >>
    /\ zlib_res = Unset
    /\ deflate_res = Unset
    /\ text = Unset
    /\ response = Unset
    /\ result = Unset
    /\ trace = << >>

Init ==
    /\ Idle
    /\ legacy = Unset
    /\ converted = Unset

\* return Err(e) / the ? operator: the call ends with the error
Fail(e, step) ==
    /\ result' = Err(e)
    /\ pc' = "done"
    /\ trace' = trace \o step
(***************************************************************************)
(* fetch_idl_with_client, fetcher.rs:93-155, step by step.                 *)
(***************************************************************************)
FetchIdlWithClient ==
    /\ pc = "idle"
    /\ \E p \in Programs : arg' = p
    /\ source' = "OnChain"
    /\ pc' = "get_idl_address"
    /\ UNCHANGED << legacy, converted, idl_address, data, compressed, zlib_res, deflate_res,
                    text, response, result, trace >>

\* Step 1, fetcher.rs:95
DeriveAddress ==
    /\ pc = "get_idl_address"
    /\ LET r == get_idl_address(arg) IN
         IF IsErr(r)
         THEN Fail(r.err, << "get_idl_address" >>) /\ UNCHANGED idl_address
         ELSE /\ idl_address' = r.ok
              /\ pc' = "get_account"
              /\ trace' = Append(trace, "get_idl_address")
              /\ UNCHANGED result
    /\ UNCHANGED << legacy, converted, source, arg, data, compressed, zlib_res, deflate_res,
                    text, response >>

\* Step 2, fetcher.rs:98-109: the account read answers with the account's
\* bytes or with an error text
GetAccount ==
    /\ pc = "get_account"
    /\ \E out \in { Ok(d) : d \in AccountDatas } \cup { Err(e) : e \in RpcErrors } :
         IF IsErr(out)
         THEN /\ Fail(map_rpc_error(out.err, arg), << "get_account" >>)
              /\ response' = out
              /\ UNCHANGED data
         ELSE /\ data' = out.ok
              /\ pc' = "envelope"
              /\ trace' = Append(trace, "get_account")
              /\ UNCHANGED << result, response >>
    /\ UNCHANGED << legacy, converted, source, arg, idl_address, compressed, zlib_res, deflate_res,
                    text >>

\* Steps 3-6, fetcher.rs:111-139
DecodeEnvelope ==
    /\ pc = "envelope"
    /\ LET r == decode_envelope(data) IN
         IF IsErr(r)
         THEN Fail(r.err, << "envelope" >>) /\ UNCHANGED compressed
         ELSE /\ compressed' = r.ok
              /\ pc' = "decompress"
              /\ trace' = Append(trace, "envelope")
              /\ UNCHANGED result
    /\ UNCHANGED << legacy, converted, source, arg, idl_address, data, zlib_res, deflate_res,
                    text, response >>

\* Step 7, fetcher.rs:142: each decoder answers for the compressed bytes;
\* an answer is recorded when decompress_idl_data ran that decoder
Decompress ==
    /\ pc = "decompress"
    /\ \E z \in DecodeOutcomes, f \in DecodeOutcomes :
         LET d == decompress_idl_data(z, f) IN
         /\ zlib_res' = IF Contains(d.ran, "decompress_zlib") THEN z ELSE Unset
         /\ deflate_res' = IF Contains(d.ran, "decompress_deflate") THEN f ELSE Unset
         /\ IF IsErr(d.res)
            THEN Fail(d.res.err, d.ran) /\ UNCHANGED text
            ELSE /\ text' = d.res.ok
                 /\ pc' = "from_utf8"
                 /\ trace' = trace \o d.ran
                 /\ UNCHANGED result
    /\ UNCHANGED << legacy, converted, source, arg, idl_address, data, compressed, response >>

\* variant: the decompressed bytes are handed on unvalidated
ValidateUtf8_Skipped ==
    /\ pc = "from_utf8"
    /\ pc' = "parse_chain"
    /\ trace' = Append(trace, "from_utf8")
    /\ UNCHANGED << legacy, converted, source, arg, idl_address, data, compressed,
                    zlib_res, deflate_res, text, response, result >>

\* Step 8, fetcher.rs:145-149
ValidateUtf8 ==
    /\ pc = "from_utf8"
    /\ IF text = NotUtf8
       THEN Fail(DecompressionError(Utf8Msg), << "from_utf8" >>)
       ELSE /\ pc' = "parse_chain"
            /\ trace' = Append(trace, "from_utf8")
            /\ UNCHANGED result
    /\ UNCHANGED << legacy, converted, source, arg, idl_address, data, compressed, zlib_res,
                    deflate_res, text, response >>

\* the end of each of the three calls: the text is parsed and the call
\* returns, fetcher.rs:152-154, 179-181, 234-236
Parse ==
    \E p \in { parse_idl(text) } :
    /\ result' = p.res
    /\ pc' = "done"
    /\ trace' = trace \o p.ran
    /\ UNCHANGED << legacy, converted, source, arg, idl_address, data, compressed, zlib_res,
                    deflate_res, text, response >>

\* Step 9, fetcher.rs:152-154
ParseChain == pc = "parse_chain" /\ Parse

(***************************************************************************)
(* load_idl_from_file, fetcher.rs:168-182.                                 *)
(***************************************************************************)
LoadIdlFromFile ==
    /\ pc = "idle"
    /\ \E p \in Paths : arg' = p
    /\ source' = "File"
    /\ pc' = "exists"
    /\ UNCHANGED << legacy, converted, idl_address, data, compressed, zlib_res, deflate_res,
                    text, response, result, trace >>

\* fetcher.rs:171-176: the filesystem answers whether the path exists
CheckExists ==
    /\ pc = "exists"
    /\ \E exists \in BOOLEAN :
         IF ~exists
         THEN Fail(IoError("NotFound", "File not found: " \o arg), << "exists" >>)
         ELSE /\ pc' = "read_to_string"
              /\ trace' = Append(trace, "exists")
              /\ UNCHANGED result
    /\ UNCHANGED << legacy, converted, source, arg, idl_address, data, compressed, zlib_res,
                    deflate_res, text, response >>

\* fetcher.rs:178: the read answers with the text, or fails (the file is
\* gone by now, or holds no UTF-8)
ReadToString ==
    /\ pc = "read_to_string"
    /\ \E out \in { Ok(t) : t \in Texts }
                 \cup { Err(IoError("NotFound", "No such file or directory")),
                        Err(IoError("InvalidData", "stream did not contain valid UTF-8")) } :
         IF IsErr(out)
         THEN Fail(out.err, << "read_to_string" >>) /\ UNCHANGED text
         ELSE /\ text' = out.ok
              /\ pc' = "parse_file"
              /\ trace' = Append(trace, "read_to_string")
              /\ UNCHANGED result
    /\ UNCHANGED << legacy, converted, source, arg, idl_address, data, compressed, zlib_res,
                    deflate_res, response >>

\* fetcher.rs:179-181
ParseFile == pc = "parse_file" /\ Parse

(***************************************************************************)
(* fetch_idl_from_url, fetcher.rs:203-237.                                 *)
(***************************************************************************)
FetchIdlFromUrl ==
    /\ pc = "idle"
    /\ \E u \in Urls : arg' = u
    /\ source' = "Url"
    /\ pc' = "build"
    /\ UNCHANGED << legacy, converted, idl_address, data, compressed, zlib_res, deflate_res,
                    text, response, result, trace >>

\* fetcher.rs:205-210
BuildClient ==
    /\ pc = "build"
    /\ \E built \in BOOLEAN :
         IF ~built
         THEN Fail(NetworkError("Failed to create HTTP client"), << "build" >>)
         ELSE /\ pc' = "send"
              /\ trace' = Append(trace, "build")
              /\ UNCHANGED result
    /\ UNCHANGED << legacy, converted, source, arg, idl_address, data, compressed, zlib_res,
                    deflate_res, text, response >>

\* variant: a request that fails is sent once more before the call gives up
Send_Retry ==
    /\ pc = "send"
    /\ \E out \in { Ok([status |-> st, body |-> t]) : st \in Statuses, t \in Texts }
                 \cup { Err("timed out") } :
         IF IsErr(out)
         THEN IF Contains(trace, "send")
              THEN Fail(NetworkError("HTTP request failed"), << "send" >>)
                       /\ UNCHANGED response
              ELSE /\ trace' = Append(trace, "send")
                   /\ UNCHANGED << pc, result, response >>
         ELSE /\ response' = out.ok
              /\ pc' = "status"
              /\ trace' = Append(trace, "send")
              /\ UNCHANGED result
    /\ UNCHANGED << legacy, converted, source, arg, idl_address, data, compressed, zlib_res,
                    deflate_res, text >>

\* fetcher.rs:213-217: the server answers with a status and a body, or the
\* request fails
Send ==
    /\ pc = "send"
    /\ \E out \in { Ok([status |-> st, body |-> t]) : st \in Statuses, t \in Texts }
                 \cup { Err("timed out") } :
         IF IsErr(out)
         THEN Fail(NetworkError("HTTP request failed"), << "send" >>)
                  /\ UNCHANGED response
         ELSE /\ response' = out.ok
              /\ pc' = "status"
              /\ trace' = Append(trace, "send")
              /\ UNCHANGED result
    /\ UNCHANGED << legacy, converted, source, arg, idl_address, data, compressed, zlib_res,
                    deflate_res, text >>

\* fetcher.rs:220-225
CheckStatus ==
    /\ pc = "status"
    /\ IF ~is_success(response.status)
       THEN Fail(HttpError(response.status, arg), << "status" >>)
       ELSE /\ pc' = "read_body"
            /\ trace' = Append(trace, "status")
            /\ UNCHANGED result
    /\ UNCHANGED << legacy, converted, source, arg, idl_address, data, compressed, zlib_res,
                    deflate_res, text, response >>

\* fetcher.rs:228-231
ReadBody ==
    /\ pc = "read_body"
    /\ \E read \in BOOLEAN :
         IF ~read
         THEN Fail(NetworkError("Failed to read response body"), << "read_body" >>)
                  /\ UNCHANGED text
         ELSE /\ text' = response.body
              /\ pc' = "parse_url"
              /\ trace' = Append(trace, "read_body")
              /\ UNCHANGED result
    /\ UNCHANGED << legacy, converted, source, arg, idl_address, data, compressed, zlib_res,
                    deflate_res, response >>

\* fetcher.rs:234-236
ParseUrl == pc = "parse_url" /\ Parse

Next ==
    \/ FetchIdlWithClient
    \/ DeriveAddress
    \/ GetAccount
    \/ DecodeEnvelope
    \/ Decompress
    \/ ValidateUtf8
    \/ ParseChain
    \/ LoadIdlFromFile
    \/ CheckExists
    \/ ReadToString
    \/ ParseFile
    \/ FetchIdlFromUrl
    \/ BuildClient
    \/ Send
    \/ CheckStatus
    \/ ReadBody
    \/ ParseUrl

Spec == Init /\ [][Next]_vars

(***************************************************************************)
(* Properties of the envelope checks and of the decompressor.              *)
(***************************************************************************)
\* the envelope checks have run on the account data of this call
EnvelopeActed == source = "OnChain" /\ Contains(trace, "envelope")
\* ... and ended the call
EnvelopeFailed == EnvelopeActed /\ pc = "done" /\ trace[Len(trace)] = "envelope"
\* the little-endian u32 at offsets 40..43 of an account image
LenFieldLE(d) == d[41] + 256 * d[42] + 65536 * d[43] + 16777216 * d[44]
EnvelopeError(m) == [err |-> [kind |-> "DecompressionError", msg |-> m]]
TruncatedText(l, n) ==
    "Compressed data truncated: expected " \o ToString(l) \o " bytes, got " \o ToString(n)

\* C1: the envelope checks apply in the order too-small, empty, truncated:
\* account data shorter than 44 bytes fails as too small whatever it
\* holds, and data of at least 44 bytes whose length field is 0 fails as
\* empty, with or without trailing bytes; the reported failure is always
\* that of the first failing check.
C1_EnvelopeCheckOrder ==
    EnvelopeActed =>
        /\ Len(data) < 44 =>
             EnvelopeFailed
                 /\ result = EnvelopeError("Account data too small for IDL header")
        /\ (Len(data) >= 44 /\ LenFieldLE(data) = 0) =>
             EnvelopeFailed /\ result = EnvelopeError("IDL compressed data is empty")
        /\ (Len(data) >= 44 /\ LenFieldLE(data) # 0
                /\ Len(data) < 44 + LenFieldLE(data)) =>
             EnvelopeFailed
                 /\ result = EnvelopeError(
                        TruncatedText(LenFieldLE(data), Len(data) - 44))
        /\ (Len(data) >= 44 /\ LenFieldLE(data) # 0
                /\ Len(data) >= 44 + LenFieldLE(data)) => ~EnvelopeFailed

\* C1 witness: 44 header bytes with length field 0 and trailing bytes
\* behind them were reported as empty
C1_Witness ==
    /\ EnvelopeFailed
    /\ Len(data) > 44
    /\ LenFieldLE(data) = 0
    /\ result = EnvelopeError("IDL compressed data is empty")

\* C2: account data of length T >= 44 whose declared length L is not 0
\* and exceeds the T - 44 bytes behind the header fails as truncated,
\* reporting exactly expected = L and actual = T - 44; data with
\* T >= 44 + L never fails that way.
C2_TruncatedExact ==
    (EnvelopeActed /\ Len(data) >= 44) =>
        LET L == LenFieldLE(data)
            T == Len(data)
        IN  /\ (L # 0 /\ T < 44 + L) =>
                  EnvelopeFailed /\ result = EnvelopeError(TruncatedText(L, T - 44))
            /\ T >= 44 + L =>
                  (EnvelopeFailed => result = EnvelopeError("IDL compressed data is empty"))

\* C2 witness: a length field with a high byte set (L = 65536) and two
\* bytes behind the header were reported as truncated
C2_Witness ==
    /\ EnvelopeFailed
    /\ Len(data) = 46
    /\ LenFieldLE(data) = 65536
    /\ result = EnvelopeError(TruncatedText(65536, 2))

\* an account image with other discriminator and authority bytes
Reheaded(d, x, y) == Fill(8, x) \o Fill(32, y) \o SubSeq(d, 41, Len(d))

\* C3: for well-formed account data (T >= 44 + L, L > 0) the payload handed
\* to the decompressor is exactly bytes[44, 44+L): its length is L, bytes
\* behind offset 44+L are ignored, and the discriminator and the authority
\* influence neither the payload nor whether decoding succeeds.
C3_ExactSlice ==
    (EnvelopeActed /\ Len(data) >= 44
         /\ LenFieldLE(data) > 0 /\ Len(data) >= 44 + LenFieldLE(data)) =>
        LET L == LenFieldLE(data) IN
        /\ ~EnvelopeFailed
        /\ Len(compressed) = L
        /\ \A i \in 1..L : compressed[i] = data[44 + i]
        /\ \A x \in {0, 7, 255}, y \in {0, 9, 255} :
               decode_envelope(Reheaded(data, x, y)) = Ok(compressed)
        /\ \A extra \in BytesUpTo({1, 120}, 2) :
               decode_envelope(SubSeq(data, 1, 44 + L) \o extra) = Ok(compressed)

\* C3 witness: a payload was cut out of account data that goes on behind it
C3_Witness ==
    /\ EnvelopeActed
    /\ pc = "decompress"
    /\ Len(data) > 44 + Len(compressed)
    /\ Len(compressed) > 0

\* the decompressor has run in this call
DecompressActed == source = "OnChain" /\ pc \in {"from_utf8", "parse_chain", "done"}
                       /\ Contains(trace, "envelope") /\ ~EnvelopeFailed
IndexOf(s, x) == MinOf({i \in 1..Len(s) : s[i] = x})

\* C4: the decompressor tries zlib first and raw deflate second: when the
\* zlib decoder succeeds its output is the result and raw deflate is not
\* run; the raw deflate output is the result only when zlib failed; when
\* both fail the result is the one DecompressionError with its fixed text,
\* whatever the decoders reported.
C4_ZlibThenDeflate ==
    DecompressActed =>
        /\ IsSet(zlib_res)
        /\ Contains(trace, "decompress_zlib")
        /\ Contains(trace, "decompress_deflate") =>
               IndexOf(trace, "decompress_zlib") < IndexOf(trace, "decompress_deflate")
        /\ IsOk(zlib_res) =>
               /\ text = zlib_res.ok
               /\ ~IsSet(deflate_res)
               /\ ~Contains(trace, "decompress_deflate")
        /\ IsErr(zlib_res) =>
               /\ IsSet(deflate_res)
               /\ IsOk(deflate_res) => text = deflate_res.ok
               /\ IsErr(deflate_res) =>
                      /\ pc = "done"
                      /\ result = [err |-> [kind |-> "DecompressionError",
                                            msg |-> "Failed to decompress IDL data with both zlib and deflate"]]
        /\ IsSet(deflate_res) => IsErr(zlib_res)

\* C4 witness: zlib failed and the raw deflate output became the result
C4_Witness ==
    /\ DecompressActed
    /\ IsErr(zlib_res)
    /\ IsOk(deflate_res)
    /\ text = deflate_res.ok
    /\ pc = "from_utf8"

(***************************************************************************)
(* Properties of the parse that ends each of the three calls.              *)
(***************************************************************************)
\* the call has ended in its parse of the text
ParseActed ==
    /\ pc = "done"
    /\ IsSet(text)
    /\ Len(trace) > 0
    /\ trace[Len(trace)] \in {"parse_Idl", "parse_LegacyIdl"}
\* the parses the call attempted, in order
Attempts == SelectSeq(trace, LAMBDA x : x \in {"parse_Idl", "parse_LegacyIdl"})
HasStringAddress(t) ==
    IsObj(t) /\ HasKey(t.obj, "address") /\ IsStr(ValueOf(t.obj, "address"))
HasName(t) == IsObj(t) /\ HasKey(t.obj, "name")
ParseFailedWith(cause) == [err |-> [kind |-> "ParseError", cause |-> cause]]

\* C5: a document with a top-level name and without a string-valued
\* address is read as legacy on every path: when it is a valid legacy
\* document the call succeeds with its conversion, whose metadata.spec is
\* "legacy", whether the text came from the ledger, a file or a URL.
C5_NameDocIsLegacy ==
    (ParseActed /\ HasName(text) /\ ~HasStringAddress(text)) =>
        LET l == from_json("LegacyIdl", text) IN
        IsOk(l) =>
            /\ IsOk(result)
            /\ result.ok.metadata.spec = "legacy"
            /\ result.ok = Idl_from(l.ok)

\* C6: a document whose top-level address is a string is read as canonical
\* only, whether or not it has a name: the call returns what the canonical
\* parse returned, a failure of that parse ends the call with ParseError
\* carrying its cause, and no legacy parse is attempted.
C6_StringAddressIsCanonical ==
    (ParseActed /\ HasStringAddress(text)) =>
        LET c == from_json("Idl", text) IN
        /\ Attempts = << "parse_Idl" >>
        /\ IsOk(c) =>
               /\ result = [ok |-> c.ok]
               /\ result.ok.address = ValueOf(text.obj, "address").str
        /\ IsErr(c) => result = ParseFailedWith(c.err)

\* C6 witness: a document with a string address and a name that is a valid
\* legacy document, but no valid canonical one, ended the call with
\* ParseError
C6_Witness ==
    /\ ParseActed
    /\ HasStringAddress(text)
    /\ HasName(text)
    /\ IsOk(from_json("LegacyIdl", text))
    /\ IsErr(from_json("Idl", text))
    /\ IsErr(result)
    /\ result.err.kind = "ParseError"

\* C7: for a document with neither a string-valued address nor a name the
\* canonical parse is attempted first and the legacy parse second; when
\* every attempted parse fails (also for a document with a name whose
\* legacy parse failed) the call ends with ParseError whose cause is the
\* error of the canonical parse, not that of the legacy parse.
C7_CanonicalThenLegacy ==
    (ParseActed /\ IsObj(text) /\ ~HasStringAddress(text)) =>
        LET c == from_json("Idl", text)
            l == from_json("LegacyIdl", text)
        IN  /\ ~HasName(text) => Attempts = << "parse_Idl", "parse_LegacyIdl" >>
            /\ (IsErr(c) /\ IsErr(l)) => result = ParseFailedWith(c.err)

(***************************************************************************)
(* The conversion of a legacy document, legacy.rs:176-218, applied to      *)
(* every parsed LegacyIdl of a bounded family of legacy documents.         *)
(***************************************************************************)
SeqsUpTo(S, n) == UNION { [1..k -> S] : k \in 0..n }

\* a second definition named Vault, so that an account and a type may share
\* a name and differ
LegacyVaultTypeJson ==
    JObj(<< << "name", JStr("Vault") >>,
            << "type", JObj(<< << "kind", JStr("struct") >>,
                               << "fields", JArr(<< >>) >> >>) >> >>)
LegacyTypeDefJsons == { LegacyAccountJson, LegacyTypeJson }
LegacyTypeJsons == { LegacyVaultTypeJson, LegacyTypeJson }
\* events: two named Traded that differ in their field bodies only, and one
\* of another name
LegacyEventJsons ==
    { LegacyEventJson,
      JObj(<< << "name", JStr("Traded") >>, << "fields", JArr(<< >>) >> >>),
      JObj(<< << "name", JStr("Closed") >> >>) }
LegacyMetadataOpts ==
    { << >>,
      One("metadata", JObj(<< << "origin", JStr("anchor") >> >>)),
      One("metadata", JObj(<< << "address", JStr("MetaAddr") >>,
                              << "origin", JStr("anchor") >> >>)) }

LegacyDocs ==
    { JObj(One("name", JStr("foo")) \o One("version", JStr("1.0.0")) \o m \o i
               \o One("accounts", JArr(a)) \o One("types", JArr(t))
               \o One("events", JArr(e))) :
        m \in LegacyMetadataOpts, i \in InstructionsOpts,
        a \in SeqsUpTo(LegacyTypeDefJsons, MaxList),
        t \in SeqsUpTo(LegacyTypeJsons, MaxList),
        e \in SeqsUpTo(LegacyEventJsons, MaxList) }

\* the LegacyIdl values these documents parse to
LegacyIdls == { from_json("LegacyIdl", d).ok : d \in LegacyDocs }

InitConv ==
    /\ Idle
    /\ legacy \in LegacyIdls
    /\ converted = Unset

\* let idl: Idl = legacy.into()
Convert ==
    /\ IsSet(legacy)
    /\ ~IsSet(converted)
    /\ converted' = Idl_from(legacy)
    /\ UNCHANGED << pc, source, arg, idl_address, data, compressed, zlib_res,
                    deflate_res, text, response, result, trace, legacy >>

NextConv == Convert

SpecConv == InitConv /\ [][NextConv]_vars

Range(s) == { s[i] : i \in 1..Len(s) }
Converted == IsSet(legacy) /\ IsSet(converted)
Names(s) == [i \in 1..Len(s) |-> s[i].name]

\* C8: the converted document has metadata.name and metadata.version equal
\* to the legacy top-level name and version, metadata.spec "legacy" and no
\* description; its address is the legacy metadata's address when the
\* metadata and its address are present and the empty string otherwise,
\* and nothing else of the legacy document decides it.
C8_MetadataAndAddress ==
    Converted =>
        /\ converted.metadata.name = legacy.name
        /\ converted.metadata.version = legacy.version
        /\ converted.metadata.spec = "legacy"
        /\ converted.metadata.description = << >>
        /\ converted.address =
               IF legacy.metadata # << >> /\ legacy.metadata[1].address # << >>
               THEN legacy.metadata[1].address[1]
               ELSE ""
        /\ \A l \in { [legacy EXCEPT !.accounts = << >>, !.types = << >>,
                                     !.events = << >>, !.instructions = << >>,
                                     !.name = "other"] } :
               Idl_from(l).address = converted.address

\* C8 witness: a legacy document whose metadata names an origin and no
\* address was converted to a document with the empty address
C8_Witness ==
    /\ Converted
    /\ legacy.metadata # << >>
    /\ legacy.metadata[1].address = << >>
    /\ legacy.metadata[1].origin # << >>
    /\ converted.address = ""
    /\ converted.metadata.spec = "legacy"

\* C9: with n legacy accounts and m legacy types the converted accounts
\* list holds exactly n references with the accounts' names in order, and
\* the converted types list holds first the n converted accounts and then
\* the m converted types, n + m entries, nothing dropped for a shared name.
C9_AccountsThenTypes ==
    Converted =>
        LET n == Len(legacy.accounts)
            m == Len(legacy.types)
        IN  /\ Len(converted.accounts) = n
            /\ \A i \in 1..n : converted.accounts[i].name = legacy.accounts[i].name
            /\ Len(converted.types) = n + m
            /\ \A i \in 1..n : converted.types[i] = IdlTypeDef_from(legacy.accounts[i])
            /\ \A j \in 1..m : converted.types[n + j] = IdlTypeDef_from(legacy.types[j])

\* C9 witness: two accounts of different names and a type that shares its
\* name with the second account were converted, and both Vault definitions
\* are in the types list
C9_Witness ==
    /\ Converted
    /\ Names(legacy.accounts) = << "Side", "Vault" >>
    /\ Names(legacy.types) = << "Vault" >>
    /\ Names(converted.accounts) = << "Side", "Vault" >>
    /\ Names(converted.types) = << "Side", "Vault", "Vault" >>
    /\ converted.types[2] # converted.types[3]

\* the legacy document with the field bodies of its events removed
WithoutEventBodies(l) ==
    [l EXCEPT !.events = [i \in 1..Len(l.events) |->
                              [name |-> l.events[i].name, fields |-> << >>]]]

\* C10: the converted events keep only the names of the legacy events, in
\* order; the event field bodies are dropped, so legacy documents that
\* differ in event field bodies only convert to equal documents; and no
\* entry of the converted types list comes from an event.
C10_EventsKeepOnlyNames ==
    Converted =>
        /\ Len(converted.events) = Len(legacy.events)
        /\ \A i \in 1..Len(legacy.events) :
               /\ converted.events[i].name = legacy.events[i].name
               /\ DOMAIN converted.events[i] = {"name", "discriminator"}
        /\ converted = Idl_from(WithoutEventBodies(legacy))
        /\ Len(converted.types) = Len(legacy.accounts) + Len(legacy.types)
        /\ \A i \in 1..Len(converted.types) :
               converted.types[i].name \in
                   { d.name : d \in Range(legacy.accounts) \cup Range(legacy.types) }

\* C10 witness: a legacy document with an event that has field bodies was
\* converted, and its events are the bare names
C10_Witness ==
    /\ Converted
    /\ Len(legacy.events) = 2
    /\ legacy.events[1].fields # << >>
    /\ legacy.events[2].name = "Closed"
    /\ Names(converted.events) = << "Traded", "Closed" >>
    /\ legacy # WithoutEventBodies(legacy)

\* C11: discriminators are never fabricated by the conversion: in every
\* converted document every instruction, every account reference and
\* every event reference has a discriminator, and it is the empty byte
\* sequence, whatever the legacy document.
C11_DiscriminatorsEmpty ==
    Converted =>
        \A item \in Range(converted.instructions) \cup Range(converted.accounts)
                        \cup Range(converted.events) :
            /\ "discriminator" \in DOMAIN item
            /\ item.discriminator = << >>

\* C11 witness: a legacy document with an instruction, an account and an
\* event was converted
C11_Witness ==
    /\ Converted
    /\ Len(converted.instructions) > 0
    /\ Len(converted.accounts) > 0
    /\ Len(converted.events) > 0
    /\ converted.instructions[1].discriminator = << >>
    /\ converted.accounts[1].discriminator = << >>
    /\ converted.events[1].discriminator = << >>

(***************************************************************************)
(* The conversions of the parts of a legacy document, legacy.rs:220-316,   *)
(* each applied to every parsed value of a bounded family of JSON texts.   *)
(***************************************************************************)
FlagOpts(k) == { << >>, One(k, JBool(TRUE)), One(k, JBool(FALSE)) }
LegacyInstructionAccountJsons ==
    { JObj(One("name", JStr("signer")) \o m \o s \o o) :
        m \in FlagOpts("isMut"), s \in FlagOpts("isSigner"),
        o \in { << >>, One("isOptional", JBool(TRUE)) } }
LegacyInstructionJsons ==
    { JObj(One("name", JStr("initialize")) \o One("accounts", JArr(a))
               \o One("args", JArr(<< >>))) :
        a \in SeqsUpTo(LegacyInstructionAccountJsons, MaxList) }

\* legacy types nested up to depth d
RECURSIVE LegacyTyJsons(_)
LegacyTyJsons(d) ==
    IF d = 0
    THEN { JStr("publicKey"), JStr("u64"), JObj(One("defined", JStr("Foo"))) }
    ELSE LET S == LegacyTyJsons(d - 1)
         IN  S \cup { JObj(One("vec", t)) : t \in S }
               \cup { JObj(One("option", t)) : t \in S }
               \cup { JObj(One("array", JArr(<< t, JNum(2) >>))) : t \in S }

LegacyFieldJsons ==
    { JObj(One("name", JStr("owner")) \o One("type", JStr("publicKey"))),
      JObj(One("name", JStr("amounts")) \o One("type", JObj(One("vec", JStr("u64"))))) }
LegacyEnumVariantJsons ==
    { JObj(One("name", JStr("Buy")) \o f) :
        f \in { << >>, One("fields", JNull) }
                \cup { One("fields", JArr(s)) : s \in SeqsUpTo(LegacyFieldJsons, MaxList) } }

\* a JSON text with the value it parses to as T
Parsed(item, ty, jsons) ==
    { [item |-> item, json |-> j, value |-> De(ty, j).ok] : j \in jsons }
LegacyItems ==
    Parsed("LegacyInstruction", TStruct("LegacyInstruction"), LegacyInstructionJsons)
        \cup Parsed("LegacyType", TUntagged("LegacyType"), LegacyTyJsons(MaxDepth))
        \cup Parsed("LegacyEnumVariant", TStruct("LegacyEnumVariant"), LegacyEnumVariantJsons)

InitItems ==
    /\ Idle
    /\ legacy \in LegacyItems
    /\ converted = Unset

\* let x: T = legacy.into(), for the part at hand
ConvertItem(item, value) ==
    /\ IsSet(legacy)
    /\ ~IsSet(converted)
    /\ legacy.item = item
    /\ converted' = value
    /\ UNCHANGED << pc, source, arg, idl_address, data, compressed, zlib_res,
                    deflate_res, text, response, result, trace, legacy >>

ConvertInstruction == ConvertItem("LegacyInstruction", IdlInstruction_from(legacy.value))
ConvertType == ConvertItem("LegacyType", IdlType_from(legacy.value))
ConvertEnumVariant == ConvertItem("LegacyEnumVariant", IdlEnumVariant_from(legacy.value))

NextItems ==
    \/ ConvertInstruction
    \/ ConvertType
    \/ ConvertEnumVariant

SpecItems == InitItems /\ [][NextItems]_vars

ConvertedItem(item) == IsSet(legacy) /\ IsSet(converted) /\ legacy.item = item
\* the flag k of a JSON object, false when it is absent
FlagOf(j, k) == IF HasKey(j.obj, k) THEN ValueOf(j.obj, k).bool ELSE FALSE

\* C12: a converted legacy instruction has one Single account item (never
\* a Group) per legacy account, in source order, with writable = isMut,
\* signer = isSigner, optional = isOptional, each false when the legacy
\* flag is absent, and with address and pda unset.
C12_InstructionAccountsSingle ==
    ConvertedItem("LegacyInstruction") =>
        LET accs == ValueOf(legacy.json.obj, "accounts").arr IN
        /\ Len(converted.accounts) = Len(accs)
        /\ \A i \in 1..Len(accs) :
               /\ DOMAIN converted.accounts[i] = {"Single"}
               /\ converted.accounts[i].Single =
                      [name |-> ValueOf(accs[i].obj, "name").str,
                       writable |-> FlagOf(accs[i], "isMut"),
                       signer |-> FlagOf(accs[i], "isSigner"),
                       optional |-> FlagOf(accs[i], "isOptional"),
                       address |-> << >>,
                       pda |-> << >>]

\* C12 witness: {name: signer, isMut: true, isSigner: true} became
\* Single{writable, signer, not optional}, ahead of a second account that
\* is neither writable nor a signer
C12_Witness ==
    /\ ConvertedItem("LegacyInstruction")
    /\ Len(converted.accounts) = 2
    /\ ValueOf(legacy.json.obj, "accounts").arr[1] =
           JObj(<< << "name", JStr("signer") >>, << "isMut", JBool(TRUE) >>,
                   << "isSigner", JBool(TRUE) >> >>)
    /\ converted.accounts[1].Single.writable
    /\ converted.accounts[1].Single.signer
    /\ ~converted.accounts[1].Single.optional
    /\ ~converted.accounts[2].Single.writable
    /\ ~converted.accounts[2].Single.signer

\* the canonical JSON of a legacy type's JSON: "publicKey" is spelled
\* "pubkey", a reference names its type in an object, all else is kept
RECURSIVE CanonTypeJson(_)
CanonTypeJson(j) ==
    IF IsStr(j) THEN (IF j.str = "publicKey" THEN JStr("pubkey") ELSE j)
    ELSE LET k == j.obj[1][1]
             v == j.obj[1][2]
         IN  CASE k \in {"vec", "option"} -> JObj(One(k, CanonTypeJson(v)))
               [] k = "array" ->
                    JObj(One(k, JArr(<< CanonTypeJson(v.arr[1]), v.arr[2] >>)))
               [] k = "defined" -> JObj(One(k, JObj(One("name", v))))
\* the primitive strings that occur in a type's JSON
RECURSIVE JsonPrimitives(_)
JsonPrimitives(j) ==
    IF IsStr(j) THEN { j.str }
    ELSE LET k == j.obj[1][1]
             v == j.obj[1][2]
         IN  CASE k \in {"vec", "option"} -> JsonPrimitives(v)
               [] k = "array" -> JsonPrimitives(v.arr[1])
               [] k = "defined" -> { }
\* the primitive strings that occur in a canonical type
RECURSIVE Primitives(_)
Primitives(t) ==
    IF DOMAIN t = {"Primitive"} THEN { t.Primitive }
    ELSE LET c == t.Complex
         IN  CASE DOMAIN c = {"Vec"} -> Primitives(c.Vec)
               [] DOMAIN c = {"Option"} -> Primitives(c.Option)
               [] DOMAIN c = {"Array"} -> Primitives(c.Array[1])
               [] DOMAIN c = {"Defined"} -> { }

\* C13: the conversion of a legacy type keeps its shape at every depth:
\* the converted type is what the canonical reader makes of the same JSON
\* with every "publicKey" spelled "pubkey" (same constructors, inner
\* types, array sizes and referenced names); "publicKey" becomes "pubkey"
\* wherever it occurs and every other primitive string is unchanged.
C13_TypeShapePreserved ==
    ConvertedItem("LegacyType") =>
        /\ [ok |-> converted] = De(TUntagged("IdlType"), CanonTypeJson(legacy.json))
        /\ Primitives(converted) =
               { IF p = "publicKey" THEN "pubkey" ELSE p : p \in JsonPrimitives(legacy.json) }
        /\ "publicKey" \notin Primitives(converted)
        /\ IsStr(legacy.json) =>
               converted = [Primitive |-> IF legacy.json.str = "publicKey"
                                          THEN "pubkey" ELSE legacy.json.str]

\* C13 witness: option<vec<publicKey>> was converted to Option(Vec(pubkey))
C13_Witness ==
    /\ ConvertedItem("LegacyType")
    /\ legacy.json = JObj(One("option", JObj(One("vec", JStr("publicKey")))))
    /\ converted = [Complex |-> [Option |-> [Complex |-> [Vec |-> [Primitive |-> "pubkey"]]]]]

\* C14: a converted legacy enum variant keeps its name; when the legacy
\* variant has fields it has Named fields (never Tuple) holding the
\* converted fields in the same order, and when it has none its fields
\* are absent.
C14_VariantFieldsNamed ==
    ConvertedItem("LegacyEnumVariant") =>
        LET j == legacy.json.obj
            has == HasKey(j, "fields") /\ ~IsNull(ValueOf(j, "fields"))
        IN  /\ converted.name = ValueOf(j, "name").str
            /\ ~has => converted.fields = << >>
            /\ has =>
                 LET fs == ValueOf(j, "fields").arr IN
                 /\ Len(converted.fields) = 1
                 /\ DOMAIN converted.fields[1] = {"Named"}
                 /\ Len(converted.fields[1].Named) = Len(fs)
                 /\ \A i \in 1..Len(fs) :
                        /\ converted.fields[1].Named[i].name = ValueOf(fs[i].obj, "name").str
                        /\ [ok |-> converted.fields[1].Named[i].ty] =
                               De(TUntagged("IdlType"),
                                  CanonTypeJson(ValueOf(fs[i].obj, "type")))

\* C14 witness: a variant with the fields amounts, owner in this order was
\* converted to Named fields amounts, owner
C14_Witness ==
    /\ ConvertedItem("LegacyEnumVariant")
    /\ Len(converted.fields) = 1
    /\ DOMAIN converted.fields[1] = {"Named"}
    /\ Names(converted.fields[1].Named) = << "amounts", "owner" >>
    /\ converted.fields[1].Named[2].ty = [Primitive |-> "pubkey"]

(***************************************************************************)
(* The canonical reader of an instruction's account list (types.rs:70-115) *)
(* and format_type (display.rs:228-243), each applied to every member of a *)
(* bounded family of canonical JSON texts.                                 *)
(***************************************************************************)
\* entries of an account list: flat accounts, and groups that nest a flat
\* account, nothing, or a group
AccountItemJsons ==
    LET flat == JObj(One("name", JStr("payer")) \o One("signer", JBool(TRUE)))
        bare == JObj(One("name", JStr("vault")))
        group == JObj(One("name", JStr("grp")) \o One("accounts", JArr(<< bare >>)))
    IN  { flat, bare, group,
          JObj(One("name", JStr("none")) \o One("accounts", JArr(<< >>))),
          JObj(One("name", JStr("outer")) \o One("accounts", JArr(<< group, flat >>))) }

\* canonical types nested up to depth d
RECURSIVE IdlTypeJsons(_)
IdlTypeJsons(d) ==
    IF d = 0
    THEN { JStr("u64"), JStr("u8"), JStr("pubkey"),
           JObj(One("defined", JObj(One("name", JStr("Foo"))))) }
    ELSE LET S == IdlTypeJsons(d - 1)
         IN  S \cup { JObj(One("vec", t)) : t \in S }
               \cup { JObj(One("option", t)) : t \in S }
               \cup { JObj(One("array", JArr(<< t, JNum(2) >>))) : t \in S }

CanonItems ==
    { [item |-> "accounts", json |-> JArr(a)] :
          a \in SeqsUpTo(AccountItemJsons, MaxList) }
        \cup Parsed("IdlType", TUntagged("IdlType"), IdlTypeJsons(MaxDepth))

InitCanon ==
    /\ pc = "idle"
    /\ source = "none"
    /\ arg \in CanonItems
    /\ idl_address = Unset
    /\ data = << >>
    /\ compressed = << >>
    /\ zlib_res = Unset
    /\ deflate_res = Unset
    /\ text = Unset
    /\ response = Unset
    /\ result = Unset
    /\ trace = << >>
    /\ legacy = Unset
    /\ converted = Unset

Return(item, value) ==
    /\ pc = "idle"
    /\ arg.item = item
    /\ result' = value
    /\ pc' = "done"
    /\ UNCHANGED << source, arg, idl_address, data, compressed, zlib_res,
                    deflate_res, text, response, trace, legacy, converted >>

\* the accounts member of an IdlInstruction is read, types.rs:62-64
ParseAccounts ==
    \E r \in { De(TVec(TUntagged("IdlAccountItem")), arg.json) } :
        Return("accounts", r)

\* format_type(&ty), display.rs:228
FormatType == Return("IdlType", format_type(arg.value))

NextCanon ==
    \/ ParseAccounts
    \/ FormatType

SpecCanon == InitCanon /\ [][NextCanon]_vars

Returned(item) == pc = "done" /\ "item" \in DOMAIN arg /\ arg.item = item

\* the parsed item is what the entry's JSON says: a Group with the nested
\* items when it has an accounts member, a Single when it has none
RECURSIVE ItemMatches(_, _)
ItemMatches(item, j) ==
    IF HasKey(j.obj, "accounts")
    THEN /\ DOMAIN item = {"Group"}
         /\ item.Group.name = ValueOf(j.obj, "name").str
         /\ LET nested == ValueOf(j.obj, "accounts").arr IN
            /\ Len(item.Group.accounts) = Len(nested)
            /\ \A i \in 1..Len(nested) : ItemMatches(item.Group.accounts[i], nested[i])
    ELSE /\ DOMAIN item = {"Single"}
         /\ item.Single.name = ValueOf(j.obj, "name").str

\* C15: in a canonical account list an entry with a nested accounts
\* member is parsed as Group with its nested items and an entry without
\* one as Single; the presence of that member alone tells them apart.
C15_GroupByAccountsKey ==
    Returned("accounts") =>
        /\ IsOk(result)
        /\ Len(result.ok) = Len(arg.json.arr)
        /\ \A i \in 1..Len(arg.json.arr) : ItemMatches(result.ok[i], arg.json.arr[i])

\* the rendering of a type's JSON that is built from primitives, vec and
\* option only; "" for any other
RECURSIVE RenderJson(_)
RenderJson(j) ==
    IF IsStr(j) THEN j.str
    ELSE LET k == j.obj[1][1]
             inner == RenderJson(j.obj[1][2])
         IN  IF k \notin {"vec", "option"} \/ inner = "" THEN ""
             ELSE (IF k = "vec" THEN "Vec<" ELSE "Option<") \o inner \o ">"

\* C20: format_type renders a Primitive as its string unchanged, a list
\* of T as "Vec<" format_type(T) ">" and an optional T as "Option<"
\* format_type(T) ">", recursively at any depth: {"vec": "u64"} renders
\* "Vec<u64>" and an optional list of u8 renders "Option<Vec<u8>>".
C20_FormatType ==
    Returned("IdlType") =>
        LET ty == arg.value IN
        /\ DOMAIN ty = {"Primitive"} => result = arg.json.str
        /\ (DOMAIN ty = {"Complex"} /\ DOMAIN ty.Complex = {"Vec"}) =>
               result = "Vec<" \o format_type(ty.Complex.Vec) \o ">"
        /\ (DOMAIN ty = {"Complex"} /\ DOMAIN ty.Complex = {"Option"}) =>
               result = "Option<" \o format_type(ty.Complex.Option) \o ">"
        /\ RenderJson(arg.json) # "" => result = RenderJson(arg.json)
        /\ arg.json = JObj(One("vec", JStr("u64"))) => result = "Vec<u64>"
        /\ arg.json = JObj(One("option", JObj(One("vec", JStr("u8"))))) =>
               result = "Option<Vec<u8>>"

\* C20 witness: the optional list of u8 was rendered as Option<Vec<u8>>
C20_Witness ==
    /\ Returned("IdlType")
    /\ arg.value = [Complex |-> [Option |-> [Complex |-> [Vec |-> [Primitive |-> "u8"]]]]]
    /\ result = "Option<Vec<u8>>"

(***************************************************************************)
(* Properties of the error each failing step of a call reports.            *)
(***************************************************************************)
\* the call has ended with the failure of its last step
FailedAt(step) ==
    pc = "done" /\ IsErr(result) /\ Len(trace) > 0 /\ trace[Len(trace)] = step
\* the error kind that a failing step reports whatever the cause says
KindOfStep(step) ==
    CASE step = "get_idl_address" -> "InvalidProgramId"
      [] step \in {"envelope", "decompress_zlib", "decompress_deflate", "from_utf8"} ->
           "DecompressionError"
      [] step = "parse_Idl" -> "ParseError"
      [] step \in {"exists", "read_to_string"} -> "IoError"
      [] step \in {"build", "send", "read_body"} -> "NetworkError"
      [] step = "status" -> "HttpError"

\* C16: when the account read fails with an error text that holds one of
\* the markers "AccountNotFound" and "could not find account", the call
\* reports IdlNotFound carrying the program id the caller passed (not the
\* derived account address); any other failure of the read is reported as
\* RpcError with the original error; and no other step's error kind
\* depends on what its collaborator's error says.
C16_NotFoundReclassified ==
    /\ (source = "OnChain" /\ FailedAt("get_account")) =>
           /\ IsErr(response)
           /\ LET e == response.err
                  marked == \E i \in 1..Len(e) :
                                e[i] \in {"AccountNotFound", "could not find account"}
              IN  /\ marked => result = [err |-> [kind |-> "IdlNotFound", program |-> arg]]
                  /\ ~marked => result = [err |-> [kind |-> "RpcError", cause |-> e]]
           /\ arg \in Programs
    /\ (pc = "done" /\ IsErr(result) /\ ~FailedAt("get_account")) =>
           result.err.kind = KindOfStep(trace[Len(trace)])

\* C16 witness: the read failed with "could not find account" and the call
\* reported IdlNotFound for the program id
C16_Witness ==
    /\ source = "OnChain"
    /\ FailedAt("get_account")
    /\ response = [err |-> << "Invalid param", "could not find account" >>]
    /\ result = [err |-> [kind |-> "IdlNotFound", program |-> [key |-> "Prog1"]]]

\* no step of the ledger path has run in this call
NoEnvelopeSteps ==
    \A i \in 1..Len(trace) :
        trace[i] \notin {"get_idl_address", "get_account", "envelope",
                         "decompress_zlib", "decompress_deflate", "from_utf8"}

\* C17: on the URL path a response whose status is not 2xx ends the call
\* with HttpError carrying that status and the requested url, before the
\* body is read or parsed, also when the body is valid JSON; a request or
\* a body read that fails ends it with NetworkError; a 2xx body goes
\* straight to the JSON parse, without envelope checks or decompression.
C17_UrlPath ==
    source = "Url" =>
        /\ NoEnvelopeSteps
        /\ (IsSet(response) /\ pc # "status"
                /\ ~(response.status \in 200..299)) =>
               /\ FailedAt("status")
               /\ result = [err |-> [kind |-> "HttpError",
                                     status |-> response.status, url |-> arg]]
               /\ ~IsSet(text)
               /\ trace = << "build", "send", "status" >>
        /\ (IsSet(response) /\ response.status \in 200..299) => ~FailedAt("status")
        /\ FailedAt("send") =>
               result.err.kind = "NetworkError" /\ ~IsSet(response) /\ ~IsSet(text)
        /\ FailedAt("read_body") => result.err.kind = "NetworkError" /\ ~IsSet(text)
        /\ (pc = "done" /\ IsSet(text)) =>
               /\ trace = << "build", "send", "status", "read_body", "parse_Idl" >>
               /\ text = response.body
               /\ LET c == from_json("Idl", response.body) IN
                  result = IF IsOk(c) THEN c ELSE ParseFailedWith(c.err)

\* C17 witness: a 404 response whose body is a valid canonical document
\* ended the call with HttpError(404, url)
C17_Witness ==
    /\ source = "Url"
    /\ FailedAt("status")
    /\ response.status = 404
    /\ IsOk(from_json("Idl", response.body))
    /\ result = [err |-> [kind |-> "HttpError", status |-> 404,
                          url |-> "https://host/idl.json"]]

\* C18: on the file path a path that does not exist ends the call with
\* the not-found error naming that path, and the file is neither read nor
\* parsed; the contents of an existing file go straight to the JSON parse,
\* without envelope checks or decompression, so that a parse failure is
\* ParseError and never DecompressionError.
C18_FilePath ==
    source = "File" =>
        /\ NoEnvelopeSteps
        /\ FailedAt("exists") =>
               /\ result = [err |-> [kind |-> "IoError", iokind |-> "NotFound",
                                     msg |-> "File not found: " \o arg]]
               /\ trace = << "exists" >>
               /\ ~IsSet(text)
        /\ (pc = "done" /\ IsSet(text)) =>
               /\ trace = << "exists", "read_to_string", "parse_Idl" >>
               /\ LET c == from_json("Idl", text) IN
                  result = IF IsOk(c) THEN c ELSE ParseFailedWith(c.err)
        /\ (pc = "done" /\ IsErr(result)) => result.err.kind \in {"IoError", "ParseError"}

\* C18 witness: the path idl.json did not exist and the call ended with
\* the not-found error that names it, nothing read
C18_Witness ==
    /\ source = "File"
    /\ FailedAt("exists")
    /\ result.err.msg = "File not found: idl.json"
    /\ ~IsSet(text)

(***************************************************************************)
(* The only place where the repository turns an Idl back into JSON,        *)
(* IdlCache::set (cache.rs:32-37), applied to converted legacy documents.  *)
(* Idl derives Deserialize alone (types.rs:8), and the body of set is      *)
(* todo!(), which panics.                                                  *)
(***************************************************************************)
Panic(msg) == [panic |-> "not yet implemented: " \o msg]
\* IdlCache::set, cache.rs:32-37
IdlCache_set(program_id, idl) == Panic("Implement cache set")

CacheDocs ==
    { JObj(One("name", JStr("foo")) \o One("version", JStr("1.0.0")) \o m \o i
               \o One("accounts", JArr(a)) \o One("events", JArr(e))) :
        m \in LegacyMetadataOpts, i \in InstructionsOpts,
        a \in SeqsUpTo(LegacyTypeDefJsons, MaxList),
        e \in { << >>, << LegacyEventJson >> } }

InitCache ==
    /\ Idle
    /\ legacy \in { from_json("LegacyIdl", d).ok : d \in CacheDocs }
    /\ converted = Unset

\* IdlCache::set(&idl.address, &idl) for the converted document
CacheSet ==
    /\ IsSet(converted)
    /\ pc = "idle"
    /\ result' = IdlCache_set(converted.address, converted)
    /\ pc' = "done"
    /\ UNCHANGED << source, arg, idl_address, data, compressed, zlib_res,
                    deflate_res, text, response, trace, legacy, converted >>

NextCache ==
    \/ Convert
    \/ CacheSet

SpecCache == InitCache /\ [][NextCache]_vars

\* C19: a converted legacy document can be serialized to canonical JSON
\* and parsed again, and the document parsed from that JSON equals the
\* converted one: nothing more is lost on the second pass.
C19_RoundTripStable ==
    (Converted /\ pc = "done") =>
        /\ IsOk(result)
        /\ from_json("Idl", result.ok) = [ok |-> converted]

(***************************************************************************)
(* get_idl_address (fetcher.rs:248-255) called several times in a row, as  *)
(* test_get_idl_address_deterministic does (fetcher.rs:312-322).  The      *)
(* trace holds each call's argument and what it returned.                  *)
(***************************************************************************)
\* program addresses, among them addresses that are derived themselves
DerivePrograms ==
    Programs \cup { Pubkey("Prog2"), Pubkey("Prog3"),
                    find_program_address(<< >>, Pubkey("Prog1")),
                    get_idl_address(Pubkey("Prog1")).ok }

\* let addr = get_idl_address(&program_id)
GetIdlAddress ==
    /\ Len(trace) < MaxCalls
    /\ \E p \in DerivePrograms :
           trace' = Append(trace, [program_id |-> p, returned |-> get_idl_address(p)])
    /\ UNCHANGED << pc, source, arg, idl_address, data, compressed, zlib_res,
                    deflate_res, text, response, result, legacy, converted >>

SpecDerive == Init /\ [][GetIdlAddress]_vars

IsPrefix(s, t) == Len(s) <= Len(t) /\ \A i \in 1..Len(s) : s[i] = t[i]
\* the steps of the ledger path in order, with and without the second
\* decoder
ChainSteps ==
    { << "get_idl_address", "get_account", "envelope", "decompress_zlib",
         "from_utf8", "parse_Idl" >>,
      << "get_idl_address", "get_account", "envelope", "decompress_zlib",
         "decompress_deflate", "from_utf8", "parse_Idl" >> }
\* the account data does not pass the envelope checks
BadEnvelope(d) ==
    \/ Len(d) < 44
    \/ LenFieldLE(d) = 0
    \/ Len(d) < 44 + LenFieldLE(d)

\* C22: on the ledger path the steps run in the order address derivation,
\* account read, envelope checks, decompression, UTF-8 validation, JSON
\* parse, each only after all earlier ones succeeded; the first failing
\* step decides the error: data that fails the envelope checks ends the
\* call without any decoder run, and decompressed bytes that are no UTF-8
\* end it with the UTF-8 error without any parse.
C22_ChainStageOrder ==
    source = "OnChain" =>
        /\ \E steps \in ChainSteps : IsPrefix(trace, steps)
        /\ (pc = "done" /\ IsErr(result)) =>
               \/ FailedAt("get_account")
                      /\ result.err.kind \in {"IdlNotFound", "RpcError"}
               \/ ~FailedAt("get_account")
                      /\ result.err.kind = KindOfStep(trace[Len(trace)])
        /\ (pc = "done" /\ IsOk(result)) => trace \in ChainSteps
        /\ (Contains(trace, "envelope") /\ BadEnvelope(data)) =>
               /\ FailedAt("envelope")
               /\ ~IsSet(zlib_res) /\ ~IsSet(deflate_res) /\ ~IsSet(text)
               /\ compressed = << >>
        /\ (IsSet(text) /\ text = NotUtf8 /\ pc # "from_utf8") =>
               /\ FailedAt("from_utf8")
               /\ result = EnvelopeError("Decompressed data is not valid UTF-8")
               /\ ~Contains(trace, "parse_Idl")

\* C22 witness: the account was read, passed the envelope checks and was
\* decompressed by the second decoder to bytes that are no UTF-8, and the
\* call ended there
C22_Witness ==
    /\ source = "OnChain"
    /\ FailedAt("from_utf8")
    /\ trace = << "get_idl_address", "get_account", "envelope", "decompress_zlib",
                  "decompress_deflate", "from_utf8" >>
    /\ text = NotUtf8

(***************************************************************************)
(* Properties of the kinds of the errors a call reports.                   *)
(***************************************************************************)
\* the five failure conditions between the account read and the parse
PayloadConditions ==
    { "EnvelopeTooSmall", "EmptyPayload", "PayloadTruncated",
      "DecompressionFailed", "InvalidUtf8" }
\* the condition the running call has failed on
Condition ==
    CASE FailedAt("envelope") /\ Len(data) < 44 -> "EnvelopeTooSmall"
      [] FailedAt("envelope") /\ Len(data) >= 44 /\ LenFieldLE(data) = 0 ->
           "EmptyPayload"
      [] FailedAt("envelope") /\ Len(data) >= 44 /\ LenFieldLE(data) # 0 ->
           "PayloadTruncated"
      [] FailedAt("decompress_deflate") -> "DecompressionFailed"
      [] FailedAt("from_utf8") -> "InvalidUtf8"
      [] FailedAt("exists") -> "FileNotFound"
      [] FailedAt("read_to_string") -> "OtherIo"
      [] OTHER -> "other"
\* the error kinds the code reports a condition with
KindsReported(c) ==
    CASE c = "EnvelopeTooSmall" ->
           { decode_envelope(d).err.kind : d \in { x \in AccountDatas : Len(x) < 44 } }
      [] c = "EmptyPayload" ->
           { decode_envelope(d).err.kind :
               d \in { x \in AccountDatas : Len(x) >= 44 /\ LenFieldLE(x) = 0 } }
      [] c = "PayloadTruncated" ->
           { decode_envelope(d).err.kind :
               d \in { x \in AccountDatas :
                         /\ Len(x) >= 44 /\ LenFieldLE(x) # 0
                         /\ Len(x) < 44 + LenFieldLE(x) } }
      [] c = "DecompressionFailed" ->
           { decompress_idl_data(z, f).res.err.kind :
               z \in { x \in DecodeOutcomes : IsErr(x) },
               f \in { x \in DecodeOutcomes : IsErr(x) } }
      [] c = "InvalidUtf8" -> { DecompressionError(Utf8Msg).kind }

\* C23: the five conditions EnvelopeTooSmall, EmptyPayload,
\* PayloadTruncated, DecompressionFailed and InvalidUtf8 are reported with
\* five different error kinds: the kind of the error a call ends with on
\* one of them is a kind no other of them is reported with.  The code
\* reports all five with the one kind DecompressionError, told apart by
\* the message only.
C23_DistinctKinds ==
    Condition \in PayloadConditions =>
        \A c \in PayloadConditions \ { Condition } :
            result.err.kind \notin KindsReported(c)

(***************************************************************************)
(* Properties of the fields of an enum variant.                            *)
(***************************************************************************)
\* the fields of an enum variant are absent, or a Tuple or a Named list
\* with at least one member
AbsentOrNonEmpty(fields) ==
    \/ fields = << >>
    \/ /\ Len(fields) = 1
       /\ \/ DOMAIN fields[1] = {"Tuple"} /\ Len(fields[1].Tuple) > 0
          \/ DOMAIN fields[1] = {"Named"} /\ Len(fields[1].Named) > 0

\* C24: the fields of an enum variant the conversion produces are absent
\* or a non-empty Tuple or a non-empty Named list, never present and
\* empty, also for a legacy variant written with fields: [].  The code
\* converts fields: [] to Some(Named(vec![])).
C24_FieldsNeverEmpty ==
    ConvertedItem("LegacyEnumVariant") => AbsentOrNonEmpty(converted.fields)

(***************************************************************************)
(* Properties of the number of times a call runs its steps.                *)
(***************************************************************************)
\* how often a step occurs among the steps run so far
TimesRun(step) == Cardinality({ i \in 1..Len(trace) : trace[i] = step })
\* the calls to the outside of each of the three retrieval calls
Collaborators(src) ==
    CASE src = "OnChain" -> { "get_account" }
      [] src = "File" -> { "exists", "read_to_string" }
      [] src = "Url" -> { "send", "read_body" }
      [] OTHER -> { }
AllCollaborators == { "get_account", "exists", "read_to_string", "send", "read_body" }
\* no step has run twice, and no collaborator of another call has run
NoRepeat ==
    /\ \A i, j \in 1..Len(trace) : trace[i] = trace[j] => i = j
    /\ \A c \in AllCollaborators :
           /\ TimesRun(c) <= 1
           /\ c \notin Collaborators(source) => TimesRun(c) = 0
\* a call that has returned an error has run nothing after the failing
\* step, and what the later steps would have set is still unset
StoppedAtFailure ==
    (pc = "done" /\ IsErr(result)) =>
        /\ FailedAt("get_account") => data = << >> /\ compressed = << >> /\ ~IsSet(text)
        /\ FailedAt("exists") => ~IsSet(text)
        /\ FailedAt("read_to_string") => ~IsSet(text)
        /\ FailedAt("build") => ~IsSet(response) /\ ~IsSet(text)
        /\ FailedAt("send") => ~IsSet(response) /\ ~IsSet(text)
        /\ FailedAt("status") => ~IsSet(text)
        /\ FailedAt("read_body") => ~IsSet(text)

\* C25: within one call the account read, the file read and the HTTP GET
\* each run at most once (no step runs twice), and once a step has failed
\* the call has returned: the failing step is the last step run, what
\* later steps would set stays unset, and no step is taken after the call
\* has returned.
C25_NoRetry ==
    [][ /\ NoRepeat'
        /\ StoppedAtFailure'
        /\ IsErr(result') => pc' = "done"
        /\ pc = "done" => UNCHANGED vars ]_vars

\* C25 witness: the HTTP GET failed on its first and only run and the call
\* returned the network error with no response and no text
C25_Witness ==
    /\ source = "Url"
    /\ FailedAt("send")
    /\ trace = << "build", "send" >>
    /\ TimesRun("send") = 1
    /\ result = Err(NetworkError("HTTP request failed"))
    /\ ~IsSet(response)

(***************************************************************************)
(* The account list of the instruction detail view, display.rs:113-183.    *)
(* Colours are left out.  A printed line is a record of what println!      *)
(* is given: the indent, the number (a Single) or the group marker, the    *)
(* name, and the texts of the constraints and of the address.              *)
(***************************************************************************)
\* the accounts and groups of an instruction tree, MaxNodes at most
MaxNodes == 4

\* Vec<String>::join(", ")
RECURSIVE Join(_)
Join(s) ==
    IF Len(s) = 0 THEN ""
    ELSE IF Len(s) = 1 THEN s[1]
    ELSE s[1] \o ", " \o Join(Tail(s))

\* format_account_constraints, display.rs:161-179
format_account_constraints(account) ==
    LET constraints ==
            (IF account.signer THEN << "signer" >> ELSE << >>)
                \o (IF account.writable THEN << "writable" >> ELSE << >>)
                \o (IF account.optional THEN << "optional" >> ELSE << >>)
    IN  IF constraints = << >> THEN "" ELSE "[" \o Join(constraints) \o "]"

\* format_account_extra, display.rs:182-188
format_account_extra(account) ==
    IF account.address # << >> THEN " (" \o account.address[1] \o ")" ELSE ""

\* the line of a Single, display.rs:124-131
AccountLine(account, num, indent) ==
    [indent |-> indent, num |-> num, name |-> account.name,
     constraints |-> format_account_constraints(account),
     extra |-> format_account_extra(account)]
\* the line of a Group, display.rs:135-140
GroupLine(group, indent) == [indent |-> indent, group |-> group.name]

RECURSIVE display_account_items_GroupNumbered(_, _, _)
RECURSIVE display_account_items(_, _, _)
\* variant: a group takes a number of its own
display_account_items_GroupNumbered(items, start_num, indent) ==
    IF items = << >>
    THEN [num |-> start_num, out |-> << >>]
    ELSE LET item == Head(items) IN
         IF IsVariant(item, "Single")
         THEN With(display_account_items_GroupNumbered(Tail(items), start_num + 1, indent),
                   LAMBDA rest :
                       [num |-> rest.num,
                        out |-> << AccountLine(item.Single, start_num, indent) >>
                                    \o rest.out])
         ELSE With(display_account_items_GroupNumbered(item.Group.accounts,
                                                       start_num + 1, indent + 1),
                   LAMBDA nested :
                       With(display_account_items_GroupNumbered(Tail(items), nested.num,
                                                                indent),
                            LAMBDA rest :
                                [num |-> rest.num,
                                 out |-> << GroupLine(item.Group, indent) >>
                                             \o nested.out \o rest.out]))

\* display_account_items, display.rs:114-146.  The value holds the number
\* returned and the lines printed, in order; the loop over the items from
\* the number reached so far is the call on the items that remain.
display_account_items(items, start_num, indent) ==
    IF items = << >>
    THEN [num |-> start_num, out |-> << >>]
    ELSE LET item == Head(items) IN
         IF IsVariant(item, "Single")
         THEN With(display_account_items(Tail(items), start_num + 1, indent),
                   LAMBDA rest :
                       [num |-> rest.num,
                        out |-> << AccountLine(item.Single, start_num, indent) >>
                                    \o rest.out])
         ELSE With(display_account_items(item.Group.accounts, start_num, indent + 1),
                   LAMBDA nested :
                       With(display_account_items(Tail(items), nested.num, indent),
                            LAMBDA rest :
                                [num |-> rest.num,
                                 out |-> << GroupLine(item.Group, indent) >>
                                             \o nested.out \o rest.out]))

\* count_accounts, display.rs:149-158
RECURSIVE count_accounts(_)
count_accounts(items) ==
    IF items = << >> THEN 0
    ELSE LET item == Head(items) IN
         (IF IsVariant(item, "Single") THEN 1 ELSE count_accounts(item.Group.accounts))
             + count_accounts(Tail(items))

\* two accounts as the canonical reader gives them
DisplayAccounts ==
    { De(TStruct("IdlAccount"), j).ok :
        j \in { JObj(One("name", JStr("payer")) \o One("signer", JBool(TRUE))
                    \o One("writable", JBool(TRUE))),
                JObj(One("name", JStr("vault")) \o One("address", JStr("1111"))) } }
\* the account lists of n accounts and groups at most, nested to any depth
RECURSIVE AccountForests(_)
AccountForests(n) ==
    IF n = 0 THEN { << >> }
    ELSE { << >> }
           \cup { << [Single |-> a] >> \o rest :
                    a \in DisplayAccounts, rest \in AccountForests(n - 1) }
           \cup UNION { { << [Group |-> [name |-> "grp", accounts |-> nested]] >> \o rest :
                            nested \in AccountForests(k),
                            rest \in AccountForests(n - 1 - k) } : k \in 0..(n - 1) }
\* the start numbers: display_instruction_detail passes 1 (display.rs:94)
StartNums == { 0, 1, 9 }
DisplayItems ==
    { [item |-> "display_account_items", items |-> f, start_num |-> s, indent |-> 0] :
          f \in AccountForests(MaxNodes), s \in StartNums }
        \cup { [item |-> "count_accounts", items |-> f] : f \in AccountForests(MaxNodes) }

InitDisplay ==
    /\ pc = "idle"
    /\ source = "none"
    /\ arg \in DisplayItems
    /\ idl_address = Unset
    /\ data = << >>
    /\ compressed = << >>
    /\ zlib_res = Unset
    /\ deflate_res = Unset
    /\ text = Unset
    /\ response = Unset
    /\ result = Unset
    /\ trace = << >>
    /\ legacy = Unset
    /\ converted = Unset

\* display_account_items(&instruction.accounts, 1, 0), display.rs:94
DisplayAccountItems ==
    /\ arg.item = "display_account_items"
    /\ \E r \in { display_account_items(arg.items, arg.start_num, arg.indent) } :
           Return("display_account_items", r)
\* count_accounts(&instruction.accounts), display.rs:89
CountAccounts ==
    /\ arg.item = "count_accounts"
    /\ \E r \in { count_accounts(arg.items) } : Return("count_accounts", r)

NextDisplay ==
    \/ DisplayAccountItems
    \/ CountAccounts

SpecDisplay == InitDisplay /\ [][NextDisplay]_vars

\* the positions of the accounts and groups of a tree: the path of indexes
\* from the top list down to the item
RECURSIVE NodePaths(_)
NodePaths(items) ==
    UNION { { << i >> }
              \cup (IF IsVariant(items[i], "Group")
                    THEN { << i >> \o p : p \in NodePaths(items[i].Group.accounts) }
                    ELSE { }) : i \in 1..Len(items) }
RECURSIVE NodeAt(_, _)
NodeAt(items, p) ==
    IF Len(p) = 1 THEN items[p[1]]
    ELSE NodeAt(items[p[1]].Group.accounts, Tail(p))
\* q comes before p in depth-first source order: q is an ancestor of p, or
\* q turns to an earlier item where the two paths part
Before(q, p) ==
    \/ Len(q) < Len(p) /\ \A i \in 1..Len(q) : q[i] = p[i]
    \/ \E k \in 1..MinOf({ Len(q), Len(p) }) :
           /\ \A i \in 1..(k - 1) : q[i] = p[i]
           /\ q[k] < p[k]
SinglePaths(items) ==
    { p \in NodePaths(items) : IsVariant(NodeAt(items, p), "Single") }

\* C26: display_account_items prints one line per account and group in
\* depth-first source order, a group's line before its members and
\* indented by its depth; the Single accounts are numbered consecutively
\* from the start number in that order and a Group takes no number; the
\* number returned is the start number plus count_accounts of the items;
\* count_accounts is the number of Single accounts at any depth.
C26_DepthFirstNumbering ==
    /\ Returned("display_account_items") =>
           LET items == arg.items
               P == NodePaths(items)
               S == SinglePaths(items)
           IN  /\ result.num = arg.start_num + count_accounts(items)
               /\ result.num = arg.start_num + Cardinality(S)
               /\ Len(result.out) = Cardinality(P)
               /\ \A p \in P :
                      LET line == result.out[1 + Cardinality({ q \in P : Before(q, p) })]
                          node == NodeAt(items, p)
                      IN  /\ line.indent = arg.indent + Len(p) - 1
                          /\ IF IsVariant(node, "Single")
                             THEN /\ "num" \in DOMAIN line
                                  /\ line.name = node.Single.name
                                  /\ line.num = arg.start_num
                                                  + Cardinality({ q \in S : Before(q, p) })
                             ELSE /\ "num" \notin DOMAIN line
                                  /\ line.group = node.Group.name
    /\ Returned("count_accounts") =>
           result = Cardinality(SinglePaths(arg.items))

\* C26 witness: the list of a group holding a group holding vault,
\* followed by payer, was displayed from 1: the two groups took no number,
\* vault is 1 at indent 2, payer is 2 at indent 0, and 3 was returned
C26_Witness ==
    /\ Returned("display_account_items")
    /\ arg.start_num = 1
    /\ Len(arg.items) = 2
    /\ IsVariant(arg.items[1], "Group")
    /\ Len(result.out) = 4
    /\ result.out[1] = [indent |-> 0, group |-> "grp"]
    /\ result.out[2] = [indent |-> 1, group |-> "grp"]
    /\ result.out[3] = [indent |-> 2, num |-> 1, name |-> "vault",
                        constraints |-> "", extra |-> " (1111)"]
    /\ result.out[4] = [indent |-> 0, num |-> 2, name |-> "payer",
                        constraints |-> "[signer, writable]", extra |-> ""]
    /\ result.num = 3

====
